---- MODULE Spec2Model ----
(***************************************************************************)
(* A model of the per-session pipeline of nomad-rs: the anti-replay        *)
(* windows, the crypto session with rekey and old-key retention, the sync  *)
(* engine with its version tracker, and the migration validator.           *)
(*                                                                         *)
(* Each component has its own specification (SpecReplay, SpecNonce,        *)
(* SpecCrypto, SpecSync, SpecSyncFair, SpecMigration); the variables of    *)
(* the other components stay at their initial values.                      *)
(***************************************************************************)
EXTENDS Integers, Naturals, FiniteSets, Sequences, TLC

VARIABLES
    rw,          \* ReplayWindow under test: bitmap, highest, initialized
    rwAccepts,   \* history: how often each counter was accepted since reset
    rwCalls,     \* history: number of check_and_update calls made
    nw,          \* NonceWindow under test: highest, window
    nwAccepts,   \* history: how often each nonce was accepted
    nwCalls,     \* history: number of check_and_mark calls made
    rx,          \* the role whose inbound pipeline is exercised
    sess,        \* CryptoSession of each role
    wire,        \* frames produced by encrypt_frame (the network keeps them)
    delivered,   \* history: successful decrypt_frame results per role
    lastDecrypt, \* history: the decrypt_frame call made by the latest step, if any
    issued,      \* history: epoch and counter of every frame encrypt_frame returned
    lastCall,    \* history: the encrypt_frame or rekey call made by the latest step, if any
    now,         \* monotonic clock (Instant::now), in seconds
    eng,         \* SyncEngine of each endpoint
    hist,        \* history: local state of each endpoint at each version
    net,         \* sync messages in flight towards each endpoint
    lost,        \* history: number of messages the channel has dropped
    ackedToPeer, \* history: highest peer version each endpoint has put in a message
    mig,         \* MigrationState: current_address, addresses, subnet map
    totals,      \* history: cumulative bytes per address, ever validated
    migCalls,    \* history: number of MigrationState calls made
    conn,        \* ConnectionState: phase, remote_endpoint, epoch, nonces
    lastAttempt, \* history: the migration attempt made by the latest tracker call, if any
    lastInto,    \* history: when each subnet was last migrated into
    clock,       \* monotonic clock of the timers (Instant::now), in microseconds
    ticks,       \* history: number of times the timers' clock has advanced
    ack,         \* AckTracker: pending acks, highest_acked, RTO settings, srtt, rttvar
    lastAck,     \* history: the process_ack call made by the latest step, if any
    ackCalls,    \* history: number of register_sent and process_ack calls made
    rc,          \* RetransmitController: retransmit_count, last_retransmit, timeouts
    sinceAck,    \* history: on_retransmit calls since the controller was new or acked
    pacer,       \* FramePacer: last_frame_sent, pending instants, data_pending, srtt
    sender,      \* SyncSender: intervals, send and pending instants, pending message
    senderHist   \* history: newest state update queued and not yet taken, latest take

replayVars == <<rw, rwAccepts, rwCalls>>
nonceVars  == <<nw, nwAccepts, nwCalls>>
cryptoVars == <<rx, sess, wire, delivered, lastDecrypt, issued, lastCall>>
syncVars   == <<eng, hist, net, lost, ackedToPeer>>
migVars    == <<mig, totals, migCalls, conn, lastAttempt, lastInto>>
timerVars  == <<clock, ticks, ack, lastAck, ackCalls, rc, sinceAck, pacer>>
senderVars == <<sender, senderHist>>
vars == <<rw, rwAccepts, rwCalls, nw, nwAccepts, nwCalls, rx, sess, wire,
          delivered, lastDecrypt, issued, lastCall, now, eng, hist, net, lost, ackedToPeer, mig, totals,
          migCalls, conn, lastAttempt, lastInto, clock, ticks, ack, lastAck,
          ackCalls, rc, sinceAck, pacer, sender, senderHist>>

(***************************************************************************)
(* Bounds of the model.                                                    *)
(***************************************************************************)
MaxNonceLow == 2      \* counters 0..MaxNonceLow are offered besides the edges
MaxCalls == 4         \* window calls per behaviour

(***************************************************************************)
(* Program constants.                                                      *)
(***************************************************************************)
REPLAY_WINDOW_SIZE == 2048
WordBits == 64
WINDOW_SIZE == 2048
NumWords == REPLAY_WINDOW_SIZE \div WordBits

Words == 0 .. (NumWords - 1)
EmptyBitmap == [i \in Words |-> {}]

\* u64 word operations on a word held as the set of its set bit indices
Shl(word, s) == {b + s : b \in {x \in word : x + s < WordBits}}
Shr(word, s) == {b - s : b \in {x \in word : x >= s}}

\* counters offered to the windows: small ones, the edges of the first two
\* words and of the window, and the counter that has the end of the second
\* word at the far edge of its window
NonceInputs ==
    (0 .. MaxNonceLow)
    \cup {WordBits - 1, WordBits, WordBits + 1}
    \cup {2 * WordBits - 1, 2 * WordBits, 2 * WordBits + 1}
    \cup {REPLAY_WINDOW_SIZE - 1, REPLAY_WINDOW_SIZE, REPLAY_WINDOW_SIZE + 1}
    \cup {2 * WordBits + REPLAY_WINDOW_SIZE - 1}

(***************************************************************************)
(* ReplayWindow (crypto/session.rs).  bitmap[w] holds bit b when the       *)
(* counter highest - (64 w + b) is recorded as seen.                       *)
(***************************************************************************)
ReplayWindow_new == [bitmap |-> EmptyBitmap, highest |-> 0, initialized |-> FALSE]

BitSet(bitmap, diff) == (diff % WordBits) \in bitmap[diff \div WordBits]

is_replay(w, nonce) ==
    IF ~w.initialized THEN FALSE
    ELSE IF nonce > w.highest THEN FALSE
    ELSE IF w.highest - nonce >= REPLAY_WINDOW_SIZE THEN TRUE
    ELSE BitSet(w.bitmap, w.highest - nonce)

is_seen(w, nonce) ==
    IF nonce > w.highest THEN FALSE
    ELSE IF w.highest - nonce >= REPLAY_WINDOW_SIZE THEN TRUE
    ELSE BitSet(w.bitmap, w.highest - nonce)

mark_seen(w, nonce) ==
    IF nonce > w.highest THEN w
    ELSE IF w.highest - nonce >= REPLAY_WINDOW_SIZE THEN w
    ELSE LET diff == w.highest - nonce
             wi == diff \div WordBits
         IN [w EXCEPT !.bitmap[wi] = @ \cup {diff % WordBits}]

\* the two loops of shift_window: whole words towards higher indices, then
\* bits within words, walking from the highest index down with the carry
\* taken from the word visited before (index i + 1)
ShiftWordsUp(bitmap, sw) ==
    [i \in Words |-> IF i >= sw THEN bitmap[i - sw] ELSE {}]

ShiftBitsReplay(bitmap, sb) ==
    IF sb = 0 THEN bitmap
    ELSE [i \in Words |->
            Shl(bitmap[i], sb)
            \cup (IF i + 1 \in Words THEN Shr(bitmap[i + 1], WordBits - sb) ELSE {})]

ReplayWindow_shift_window(w, shift) ==
    IF shift >= REPLAY_WINDOW_SIZE
    THEN [w EXCEPT !.bitmap = EmptyBitmap]
    ELSE [w EXCEPT !.bitmap =
            ShiftBitsReplay(ShiftWordsUp(w.bitmap, shift \div WordBits),
                            shift % WordBits)]

\* returns the window after the call and whether the call returned Ok
check_and_update(w, nonce) ==
    IF ~w.initialized
    THEN [w |-> [mark_seen([w EXCEPT !.highest = nonce], nonce)
                    EXCEPT !.initialized = TRUE],
          ok |-> TRUE]
    ELSE IF nonce > w.highest
    THEN [w |-> mark_seen([ReplayWindow_shift_window(w, nonce - w.highest)
                              EXCEPT !.highest = nonce], nonce),
          ok |-> TRUE]
    ELSE IF w.highest - nonce >= REPLAY_WINDOW_SIZE
    THEN [w |-> w, ok |-> FALSE]
    ELSE IF is_seen(w, nonce)
    THEN [w |-> w, ok |-> FALSE]
    ELSE [w |-> mark_seen(w, nonce), ok |-> TRUE]

\* a variant that keeps what the window has recorded
ReplayWindow_reset_Keeping(w) == w

ReplayWindow_reset(w) == ReplayWindow_new

(***************************************************************************)
(* NonceWindow (transport/connection.rs).  window[w] holds bit b when the  *)
(* nonce highest - 1 - (64 w + b) is recorded as seen.                     *)
(***************************************************************************)
NonceWindow_new == [highest |-> 0, window |-> EmptyBitmap]

ShiftBitsNonce(window, bs) ==
    IF bs = 0 THEN window
    ELSE [i \in Words |->
            Shr(window[i], bs)
            \cup (IF i + 1 \in Words THEN Shl(window[i + 1], WordBits - bs) ELSE {})]

NonceWindow_shift_window(window, shift) ==
    IF shift >= WINDOW_SIZE THEN EmptyBitmap
    ELSE LET shifted == ShiftBitsNonce(ShiftWordsUp(window, shift \div WordBits),
                                       shift % WordBits)
             offset == shift - 1
         IN IF shift > 0 /\ offset < WINDOW_SIZE
            THEN [shifted EXCEPT ![offset \div WordBits] = @ \cup {offset % WordBits}]
            ELSE shifted

\* returns the window after the call and whether the call returned true
check_and_mark(w, nonce) ==
    IF w.highest = 0 /\ nonce > 0
    THEN [w |-> [w EXCEPT !.highest = nonce], ok |-> TRUE]
    ELSE IF nonce > w.highest
    THEN [w |-> [highest |-> nonce,
                 window |-> NonceWindow_shift_window(w.window, nonce - w.highest)],
          ok |-> TRUE]
    ELSE IF nonce = w.highest
    THEN [w |-> w, ok |-> FALSE]
    ELSE IF w.highest - nonce > WINDOW_SIZE
    THEN [w |-> w, ok |-> FALSE]
    ELSE LET offset == w.highest - nonce - 1
             wi == offset \div WordBits
             bi == offset % WordBits
         IN IF bi \in w.window[wi]
            THEN [w |-> w, ok |-> FALSE]
            ELSE [w |-> [w EXCEPT !.window[wi] = @ \cup {bi}], ok |-> TRUE]

(***************************************************************************)
(* RekeyState and OldKeyRetention (crypto/rekey.rs).  Durations are in     *)
(* seconds; an Instant is the value of the clock when it was taken.        *)
(***************************************************************************)
\* a variant that keeps old keys for twice as long
OLD_KEY_RETENTION_Doubled == 2 * 5
OLD_KEY_RETENTION == 5
\* u64::MAX and u32::MAX in the source; held here at the largest value the
\* model checker's integers take, which no bounded behaviour comes near
REJECT_AFTER_MESSAGES == 2147483647
MAX_EPOCH == 2147483647

MaxSend == 3          \* frames encrypted per behaviour
MaxRekeys == 1        \* rekeys a role performs
MaxTime == 5          \* the clock stops at MaxTime seconds

Roles == {"Initiator", "Responder"}
Peer(role) == IF role = "Initiator" THEN "Responder" ELSE "Initiator"

NoKey == [kind |-> "none", epoch |-> 0]
NoInstant == -1

\* the handshake's key pair, and derive_rekey_keys: HKDF output is modelled
\* by the inputs that determine it (the ephemeral DH result of a rekey round
\* is agreed by both endpoints, so it is a function of the round's epoch and
\* rekey_auth_key is the same on both sides)
HandshakeInitiatorKey == [kind |-> "initiator_key", epoch |-> 0]
HandshakeResponderKey == [kind |-> "responder_key", epoch |-> 0]
derive_rekey_keys(epoch) ==
    [initiator |-> [kind |-> "initiator_key", epoch |-> epoch],
     responder |-> [kind |-> "responder_key", epoch |-> epoch]]

RekeyState_new(t) == [epoch |-> 0, epoch_start |-> t, send_count |-> 0, recv_count |-> 0]

\* returns the state after the call, whether it returned Ok, and the counter
\* a variant that hands out the counter without advancing it
increment_send_NoIncrement(rs) ==
    IF rs.send_count = REJECT_AFTER_MESSAGES
    THEN [rs |-> rs, ok |-> FALSE, counter |-> 0]
    ELSE [rs |-> rs, ok |-> TRUE, counter |-> rs.send_count]

\* a variant that starts again from 0 at the limit
increment_send_Wrapping(rs) ==
    IF rs.send_count = REJECT_AFTER_MESSAGES
    THEN [rs |-> [rs EXCEPT !.send_count = 0], ok |-> TRUE, counter |-> rs.send_count]
    ELSE [rs |-> [rs EXCEPT !.send_count = @ + 1], ok |-> TRUE, counter |-> rs.send_count]

increment_send(rs) ==
    IF rs.send_count = REJECT_AFTER_MESSAGES
    THEN [rs |-> rs, ok |-> FALSE, counter |-> 0]
    ELSE [rs |-> [rs EXCEPT !.send_count = @ + 1], ok |-> TRUE, counter |-> rs.send_count]

record_recv(rs, counter) ==
    IF counter >= rs.recv_count THEN [rs EXCEPT !.recv_count = counter + 1] ELSE rs

\* a variant that starts again from epoch 0 at the limit
advance_epoch_Wrapping(rs, t) ==
    [rs |-> [epoch |-> IF rs.epoch = MAX_EPOCH THEN 0 ELSE rs.epoch + 1,
             epoch_start |-> t, send_count |-> 0, recv_count |-> 0],
     ok |-> TRUE]

advance_epoch(rs, t) ==
    IF rs.epoch = MAX_EPOCH
    THEN [rs |-> rs, ok |-> FALSE]
    ELSE [rs |-> [epoch |-> rs.epoch + 1, epoch_start |-> t,
                  send_count |-> 0, recv_count |-> 0],
          ok |-> TRUE]

OldKeyRetention_new == [initiator_key |-> NoKey, responder_key |-> NoKey,
                        retained_at |-> NoInstant]

retain(initiator_key, responder_key, t) ==
    [initiator_key |-> initiator_key, responder_key |-> responder_key, retained_at |-> t]

within_retention_window(ok, t) ==
    ok.retained_at # NoInstant /\ t - ok.retained_at < OLD_KEY_RETENTION

old_initiator_key(ok, t) == IF within_retention_window(ok, t) THEN ok.initiator_key ELSE NoKey
old_responder_key(ok, t) == IF within_retention_window(ok, t) THEN ok.responder_key ELSE NoKey

should_clear(ok, t) == ok.retained_at # NoInstant /\ t - ok.retained_at >= OLD_KEY_RETENTION

clear_if_expired(ok, t) == IF should_clear(ok, t) THEN OldKeyRetention_new ELSE ok

(***************************************************************************)
(* Nonce, AAD and AEAD (crypto/nonce.rs, crypto/aead.rs).  A ciphertext is *)
(* modelled by what produced it; decryption authenticates exactly when     *)
(* key, nonce and AAD are the ones it was produced with.                   *)
(***************************************************************************)
FRAME_TYPE_DATA == 3

send_direction(role) ==
    IF role = "Initiator" THEN "InitiatorToResponder" ELSE "ResponderToInitiator"
opposite(dir) ==
    IF dir = "InitiatorToResponder" THEN "ResponderToInitiator" ELSE "InitiatorToResponder"
recv_direction(role) == opposite(send_direction(role))

construct_nonce(epoch, direction, counter) ==
    [epoch |-> epoch, direction |-> direction, counter |-> counter]
construct_aad(frame_type, flags, counter) ==
    [frame_type |-> frame_type, flags |-> flags, counter |-> counter]

encrypt(key, nonce, aad, plaintext) ==
    [key |-> key, nonce |-> nonce, aad |-> aad, plaintext |-> plaintext]
\* TRUE when the AEAD tag verifies, and then the plaintext is ct.plaintext
decrypt(key, nonce, aad, ct) == ct.key = key /\ ct.nonce = nonce /\ ct.aad = aad

(***************************************************************************)
(* CryptoSession (crypto/session.rs).                                      *)
(***************************************************************************)
CryptoSession_new(role, send_key, recv_key, t) ==
    [role |-> role, send_key |-> send_key, recv_key |-> recv_key,
     rekey_state |-> RekeyState_new(t), replay_window |-> ReplayWindow_new,
     old_keys |-> OldKeyRetention_new]

get_old_recv_key(s, t) ==
    IF s.role = "Initiator" THEN old_responder_key(s.old_keys, t)
    ELSE old_initiator_key(s.old_keys, t)

\* [s, ok, counter, ciphertext]
encrypt_frame(s, frame_type, flags, plaintext) ==
    LET inc == increment_send(s.rekey_state)
        nonce == construct_nonce(inc.rs.epoch, send_direction(s.role), inc.counter)
        aad == construct_aad(frame_type, flags, inc.counter)
    IN [s |-> [s EXCEPT !.rekey_state = inc.rs],
        ok |-> inc.ok,
        counter |-> inc.counter,
        ciphertext |-> encrypt(s.send_key, nonce, aad, plaintext)]

\* a variant that records the counter in the window on old-key success too
decrypt_frame_MarkingOld(s, frame_type, flags, nonce_counter, ct, t) ==
    IF is_replay(s.replay_window, nonce_counter)
    THEN [s |-> s, result |-> "ReplayDetected"]
    ELSE
      LET nonce == construct_nonce(s.rekey_state.epoch, recv_direction(s.role), nonce_counter)
          aad == construct_aad(frame_type, flags, nonce_counter)
      IN IF decrypt(s.recv_key, nonce, aad, ct)
         THEN [s |-> [s EXCEPT
                        !.replay_window = check_and_update(@, nonce_counter).w,
                        !.rekey_state = record_recv(@, nonce_counter)],
               result |-> "current"]
         ELSE
           LET cleared == [s EXCEPT !.old_keys = clear_if_expired(@, t)]
               old_recv_key == get_old_recv_key(cleared, t)
               old_epoch == IF s.rekey_state.epoch = 0 THEN 0 ELSE s.rekey_state.epoch - 1
               old_nonce == construct_nonce(old_epoch, recv_direction(s.role), nonce_counter)
           IN IF old_recv_key # NoKey /\ decrypt(old_recv_key, old_nonce, aad, ct)
              THEN [s |-> [cleared EXCEPT
                             !.replay_window = check_and_update(@, nonce_counter).w],
                    result |-> "old"]
              ELSE [s |-> cleared, result |-> "DecryptionFailed"]

\* [s, result], result one of "ReplayDetected", "current", "old",
\* "DecryptionFailed"; "current" and "old" return the plaintext
decrypt_frame(s, frame_type, flags, nonce_counter, ct, t) ==
    IF is_replay(s.replay_window, nonce_counter)
    THEN [s |-> s, result |-> "ReplayDetected"]
    ELSE
      LET nonce == construct_nonce(s.rekey_state.epoch, recv_direction(s.role), nonce_counter)
          aad == construct_aad(frame_type, flags, nonce_counter)
      IN IF decrypt(s.recv_key, nonce, aad, ct)
         THEN [s |-> [s EXCEPT
                        !.replay_window = check_and_update(@, nonce_counter).w,
                        !.rekey_state = record_recv(@, nonce_counter)],
               result |-> "current"]
         ELSE
           LET cleared == [s EXCEPT !.old_keys = clear_if_expired(@, t)]
               old_recv_key == get_old_recv_key(cleared, t)
               \* saturating_sub(1)
               old_epoch == IF s.rekey_state.epoch = 0 THEN 0 ELSE s.rekey_state.epoch - 1
               old_nonce == construct_nonce(old_epoch, recv_direction(s.role), nonce_counter)
           IN IF old_recv_key # NoKey /\ decrypt(old_recv_key, old_nonce, aad, ct)
              THEN [s |-> cleared, result |-> "old"]
              ELSE [s |-> cleared, result |-> "DecryptionFailed"]

\* [s, ok]: the old keys are retained before advance_epoch can fail
rekey(s, t) ==
    LET retained == retain(s.send_key, s.recv_key, t)
        adv == advance_epoch(s.rekey_state, t)
        keys == derive_rekey_keys(adv.rs.epoch)
    IN IF ~adv.ok
       THEN [s |-> [s EXCEPT !.old_keys = retained], ok |-> FALSE]
       ELSE [s |-> [s EXCEPT
                      !.old_keys = retained,
                      !.rekey_state = adv.rs,
                      !.send_key = IF s.role = "Initiator" THEN keys.initiator
                                   ELSE keys.responder,
                      !.recv_key = IF s.role = "Initiator" THEN keys.responder
                                   ELSE keys.initiator,
                      !.replay_window = ReplayWindow_reset(@)],
             ok |-> TRUE]


(***************************************************************************)
(* State Contract: the echo state of examples/echo/src/state.rs.  A state  *)
(* is a message and a sequence number; a diff is the full new state and is *)
(* applied only when its sequence number is newer.                         *)
(***************************************************************************)
MaxUpdates == 2       \* local updates (update_state calls) per behaviour
MaxLost == 1          \* messages the channel drops per behaviour
MaxInFlight == 1      \* messages in flight towards one endpoint

Endpoints == {"A", "B"}
Other(e) == IF e = "A" THEN "B" ELSE "A"
Messages == {<<1>>}

EchoState_new == [message |-> <<>>, sequence |-> 0]
set_message(state, message) == [message |-> message, sequence |-> state.sequence + 1]

diff_from(new, old) == [message |-> new.message, sequence |-> new.sequence]
compute_diff(old, new) == diff_from(new, old)
apply_diff(state, diff) ==
    IF diff.sequence > state.sequence
    THEN [message |-> diff.message, sequence |-> diff.sequence]
    ELSE state
is_diff_empty(diff) == diff.message = <<>> /\ diff.sequence = 0
\* [sequence:8][message_len:2][message], one element per field
encode_diff(diff) == <<diff.sequence, Len(diff.message)>> \o diff.message
decode_diff(data) ==
    [sequence |-> data[1], message |-> SubSeq(data, 3, 2 + data[2])]
\* decode_diff returns Err(UnexpectedEof): the header or the message is cut short
decode_diff_fails(data) ==
    \/ Len(data) < 2
    \/ Len(data) < 2 + data[2]

(***************************************************************************)
(* SyncMessage (sync/message.rs) and SyncTracker (sync/tracker.rs).        *)
(***************************************************************************)
SyncMessage_new(sender_state_num, acked_state_num, base_state_num, diff) ==
    [sender_state_num |-> sender_state_num, acked_state_num |-> acked_state_num,
     base_state_num |-> base_state_num, diff |-> diff]
ack_only(current_version, acked_version) ==
    [sender_state_num |-> current_version, acked_state_num |-> acked_version,
     base_state_num |-> 0, diff |-> <<>>]
is_ack_only(msg) == msg.diff = <<>>

SyncTracker_new == [current_num |-> 0, last_sent_num |-> 0, last_acked |-> 0,
                    peer_state_num |-> 0]

has_pending_updates(t) == t.current_num > t.last_sent_num
needs_ack(t) == t.peer_state_num > t.last_acked
bump_version(t) == [t EXCEPT !.current_num = @ + 1]
record_sent(t, sent_version) ==
    IF sent_version > t.last_sent_num THEN [t EXCEPT !.last_sent_num = sent_version] ELSE t
create_message(t, diff, base_state_num) ==
    SyncMessage_new(t.current_num, t.peer_state_num, base_state_num, diff)
create_ack(t) == ack_only(t.current_num, t.peer_state_num)
diff_base_version(t) == t.last_acked

\* a variant that takes a message of the stored peer version for new
process_incoming_AcceptingEqual(t, msg) ==
    LET t1 == IF msg.acked_state_num > t.last_acked
              THEN [t EXCEPT !.last_acked = msg.acked_state_num] ELSE t
        is_new_state == msg.sender_state_num >= t.peer_state_num
        t2 == IF is_new_state
              THEN [t1 EXCEPT !.peer_state_num = msg.sender_state_num] ELSE t1
    IN [t |-> t2, is_new |-> is_new_state /\ ~is_ack_only(msg)]

\* [t, is_new]: the tracker after the message, and the returned flag
process_incoming(t, msg) ==
    LET t1 == IF msg.acked_state_num > t.last_acked
              THEN [t EXCEPT !.last_acked = msg.acked_state_num] ELSE t
        is_new_state == msg.sender_state_num > t.peer_state_num
        t2 == IF is_new_state
              THEN [t1 EXCEPT !.peer_state_num = msg.sender_state_num] ELSE t1
    IN [t |-> t2, is_new |-> is_new_state /\ ~is_ack_only(msg)]

(***************************************************************************)
(* SyncEngine (sync/engine.rs), initialised.                               *)
(***************************************************************************)
SyncEngine_init(initial_state) ==
    [tracker |-> SyncTracker_new, state |-> initial_state,
     acked_snapshot |-> initial_state]

update_state(en, new_state) ==
    [en EXCEPT !.state = new_state, !.tracker = bump_version(@)]

\* [en, some, msg]: some is FALSE when generate_message returns Ok(None)
generate_message(en) ==
    IF ~has_pending_updates(en.tracker) /\ ~needs_ack(en.tracker)
    THEN [en |-> en, some |-> FALSE, msg |-> create_ack(en.tracker)]
    ELSE IF ~has_pending_updates(en.tracker)
    THEN [en |-> en, some |-> TRUE, msg |-> create_ack(en.tracker)]
    ELSE LET diff == compute_diff(en.acked_snapshot, en.state)
             diff_bytes == IF is_diff_empty(diff) THEN <<>> ELSE encode_diff(diff)
             msg == create_message(en.tracker, diff_bytes, diff_base_version(en.tracker))
         IN [en |-> [en EXCEPT !.tracker = record_sent(@, en.tracker.current_num)],
             some |-> TRUE, msg |-> msg]

generate_ack(en) == create_ack(en.tracker)

update_acked_snapshot(en) ==
    IF en.tracker.last_acked > 0 THEN [en EXCEPT !.acked_snapshot = en.state] ELSE en

\* a variant that applies the diff of every state-bearing message
process_message_ApplyingAll(en, msg) ==
    LET inc == process_incoming(en.tracker, msg)
        tracked == [en EXCEPT !.tracker = inc.t]
    IN IF is_ack_only(msg)
       THEN [en |-> IF msg.acked_state_num > 0 THEN update_acked_snapshot(tracked)
                    ELSE tracked,
             result |-> "AckOnly"]
       ELSE LET applied == [tracked EXCEPT !.state = apply_diff(@, decode_diff(msg.diff))]
            IN [en |-> IF msg.acked_state_num > 0 THEN update_acked_snapshot(applied)
                       ELSE applied,
                result |-> IF inc.is_new THEN "Updated" ELSE "Duplicate"]

\* [en, result], result one of "AckOnly", "Duplicate", "Updated"
process_message(en, msg) ==
    LET inc == process_incoming(en.tracker, msg)
        tracked == [en EXCEPT !.tracker = inc.t]
    IN IF is_ack_only(msg)
       THEN [en |-> IF msg.acked_state_num > 0 THEN update_acked_snapshot(tracked)
                    ELSE tracked,
             result |-> "AckOnly"]
       ELSE IF ~inc.is_new
       THEN [en |-> tracked, result |-> "Duplicate"]
       ELSE IF decode_diff_fails(msg.diff)
       THEN [en |-> tracked, result |-> "DiffDecode"]
       ELSE LET applied == [tracked EXCEPT !.state = apply_diff(@, decode_diff(msg.diff))]
            IN [en |-> IF msg.acked_state_num > 0 THEN update_acked_snapshot(applied)
                       ELSE applied,
                result |-> "Updated"]

(***************************************************************************)
(* MigrationState (transport/migration.rs).  An address is a subnet key    *)
(* and a host part; a map entry that is absent has present = FALSE.        *)
(***************************************************************************)
AMPLIFICATION_FACTOR == 3
MIN_MIGRATION_INTERVAL == 1
\* usize::MAX in the source, held at the largest value the checker's
\* integers take
USIZE_MAX == 2147483647

MaxBytes == 2         \* size of one datagram
MaxMigCalls == 4      \* MigrationState calls per behaviour
MaxElapsed == 1       \* seconds that pass while the addresses are tracked
MaxAge == 1           \* largest max_age given to cleanup, in seconds
MaxConnNonce == 2     \* nonces a connection draws, and the inbound nonces it is offered

Addrs == {[subnet |-> 1, host |-> 1], [subnet |-> 1, host |-> 2],
          [subnet |-> 2, host |-> 1]}
InitialAddress == [subnet |-> 1, host |-> 1]
Subnets == {a.subnet : a \in Addrs}
subnet_key(addr) == addr.subnet

saturating_add(a, b) == IF a > USIZE_MAX - b THEN USIZE_MAX ELSE a + b
saturating_mul(a, k) == IF a > USIZE_MAX \div k THEN USIZE_MAX ELSE a * k

NoAddressState == [present |-> FALSE, first_seen |-> 0, bytes_received |-> 0,
                   bytes_sent |-> 0, validated |-> FALSE]
AddressState_new(t) == [present |-> TRUE, first_seen |-> t, bytes_received |-> 0,
                        bytes_sent |-> 0, validated |-> FALSE]
\* HashMap::entry(addr).or_insert_with(AddressState::new)
EntryOrInsert(addresses, addr, t) ==
    IF addresses[addr].present THEN addresses[addr] ELSE AddressState_new(t)

MigrationState_new(initial_address, t) ==
    [current_address |-> initial_address,
     addresses |-> [a \in Addrs |->
                      IF a = initial_address
                      THEN [AddressState_new(t) EXCEPT !.validated = TRUE]
                      ELSE NoAddressState],
     subnet_last_migration |-> [sn \in Subnets |-> NoInstant]]

on_receive(m, from, bytes, t) ==
    [m EXCEPT !.addresses[from] =
        [EntryOrInsert(m.addresses, from, t)
            EXCEPT !.bytes_received = saturating_add(@, bytes)]]

on_send(m, to, bytes) ==
    IF m.addresses[to].present
    THEN [m EXCEPT !.addresses[to].bytes_sent = saturating_add(@, bytes)]
    ELSE m

\* a variant that compares the datagram alone with the allowance, without
\* the bytes already sent
can_send_IgnoringSent(m, to, bytes) ==
    IF m.addresses[to].present
    THEN IF m.addresses[to].validated THEN TRUE
         ELSE bytes <= saturating_mul(m.addresses[to].bytes_received, AMPLIFICATION_FACTOR)
    ELSE FALSE

can_send(m, to, bytes) ==
    IF m.addresses[to].present
    THEN IF m.addresses[to].validated THEN TRUE
         ELSE saturating_add(m.addresses[to].bytes_sent, bytes)
                <= saturating_mul(m.addresses[to].bytes_received, AMPLIFICATION_FACTOR)
    ELSE FALSE

\* [m, ok]
\* a variant without the rate limit
validate_address_Unlimited(m, addr, t) ==
    [m |-> [m EXCEPT
              !.subnet_last_migration[subnet_key(addr)] =
                  IF subnet_key(m.current_address) # subnet_key(addr) THEN t ELSE @,
              !.addresses[addr] =
                  [EntryOrInsert(m.addresses, addr, t) EXCEPT !.validated = TRUE],
              !.current_address = addr],
     ok |-> TRUE]

validate_address(m, addr, t) ==
    LET differs == addr # m.current_address
                   /\ subnet_key(m.current_address) # subnet_key(addr)
        last == m.subnet_last_migration[subnet_key(addr)]
        limited == differs /\ last # NoInstant /\ t - last < MIN_MIGRATION_INTERVAL
        stamped == IF differs
                   THEN [m EXCEPT !.subnet_last_migration[subnet_key(addr)] = t]
                   ELSE m
    IN IF limited THEN [m |-> m, ok |-> FALSE]
       ELSE [m |-> [stamped EXCEPT
                      !.addresses[addr] =
                          [EntryOrInsert(m.addresses, addr, t) EXCEPT !.validated = TRUE],
                      !.current_address = addr],
             ok |-> TRUE]

is_validated(m, addr) == m.addresses[addr].present /\ m.addresses[addr].validated

cleanup(m, max_age, t) ==
    [m EXCEPT !.addresses =
        [a \in Addrs |->
            IF m.addresses[a].present
               /\ (a = m.current_address \/ t - m.addresses[a].first_seen < max_age)
            THEN m.addresses[a] ELSE NoAddressState]]


(***************************************************************************)
(* ConnectionState (transport/connection.rs).  Its migration field is the  *)
(* MigrationState above; the timing, pacing and retransmission fields are  *)
(* not part of this record.                                                *)
(***************************************************************************)
\* u32::MAX and u64::MAX, held like MAX_EPOCH and REJECT_AFTER_MESSAGES
U32_MAX == MAX_EPOCH
U64_MAX == REJECT_AFTER_MESSAGES

Phases == {"Handshaking", "Established", "Closing", "Closed", "Failed"}

ConnectionState_new(remote_endpoint, t) ==
    [phase |-> "Established", remote_endpoint |-> remote_endpoint,
     last_received |-> t, epoch |-> 0, send_nonce |-> 0,
     recv_nonce_window |-> NonceWindow_new, acked_state_version |-> 0]

handshaking(remote_endpoint, t) ==
    [phase |-> "Handshaking", remote_endpoint |-> remote_endpoint,
     last_received |-> t, epoch |-> 0, send_nonce |-> 0,
     recv_nonce_window |-> NonceWindow_new, acked_state_version |-> 0]

\* [c, nonce]
next_send_nonce(c) ==
    [c |-> [c EXCEPT !.send_nonce = IF @ = U64_MAX THEN U64_MAX ELSE @ + 1],
     nonce |-> c.send_nonce]

\* [c, ok]
check_recv_nonce(c, nonce) ==
    LET res == check_and_mark(c.recv_nonce_window, nonce)
    IN [c |-> [c EXCEPT !.recv_nonce_window = res.w], ok |-> res.ok]

\* [c, m, called, ok]: called tells whether validate_address was called, ok
\* what it returned
on_authenticated_frame(c, m, from, t) ==
    LET seen == [c EXCEPT !.last_received = t]
        res == validate_address(m, from, t)
    IN IF from = c.remote_endpoint
       THEN [c |-> seen, m |-> m, called |-> FALSE, ok |-> FALSE]
       ELSE IF res.ok
       THEN [c |-> [seen EXCEPT !.remote_endpoint = from], m |-> res.m,
             called |-> TRUE, ok |-> TRUE]
       ELSE [c |-> seen, m |-> res.m, called |-> TRUE, ok |-> FALSE]

close(c) == [c EXCEPT !.phase = "Closing"]
mark_closed(c) == [c EXCEPT !.phase = "Closed"]
mark_failed(c) == [c EXCEPT !.phase = "Failed"]
complete_handshake(c) == [c EXCEPT !.phase = "Established"]
on_rekey(c) == [c EXCEPT !.epoch = IF @ = U32_MAX THEN U32_MAX ELSE @ + 1]

(***************************************************************************)
(* Initial state: every component as its constructor leaves it.            *)
(***************************************************************************)
Min(a, b) == IF a < b THEN a ELSE b

NoDecrypt == [role |-> "Initiator", ct |-> encrypt(NoKey, construct_nonce(0, "InitiatorToResponder", 0),
                                                  construct_aad(0, 0, 0), 0),
              counter |-> 0, result |-> "none", epoch |-> 0, fresh |-> FALSE,
              retained_at |-> NoInstant, at |-> 0]

NoCall == [op |-> "none", role |-> "Initiator", ok |-> FALSE, counter |-> 0,
           epoch |-> 0, send_count |-> 0, recv_count |-> 0, issued |-> 0]

NoAttempt == [made |-> FALSE, frame |-> FALSE, addr |-> InitialAddress, ok |-> FALSE, recent |-> FALSE,
              current_address |-> InitialAddress, remote_endpoint |-> InitialAddress,
              validated |-> FALSE]

ReplayInit ==
    /\ rw = ReplayWindow_new
    /\ rwAccepts = [n \in NonceInputs |-> 0]
    /\ rwCalls = 0
NonceInit ==
    /\ nw = NonceWindow_new
    /\ nwAccepts = [n \in NonceInputs |-> 0]
    /\ nwCalls = 0
CryptoInit ==
    /\ sess = [r \in Roles |->
                 IF r = "Initiator"
                 THEN CryptoSession_new(r, HandshakeInitiatorKey, HandshakeResponderKey, 0)
                 ELSE CryptoSession_new(r, HandshakeResponderKey, HandshakeInitiatorKey, 0)]
    /\ wire = {}
    /\ delivered = [r \in Roles |-> [once |-> {}, twice |-> {}]]
    /\ lastDecrypt = NoDecrypt
    /\ issued = <<>>
    /\ lastCall = NoCall
SyncInit ==
    /\ eng = [e \in Endpoints |-> SyncEngine_init(EchoState_new)]
    /\ hist = [e \in Endpoints |-> [v \in 0 .. MaxUpdates |->
                                      IF v = 0 THEN {EchoState_new} ELSE {}]]
    /\ net = [e \in Endpoints |-> {}]
    /\ lost = 0
    /\ ackedToPeer = [e \in Endpoints |-> 0]
MigInit ==
    /\ mig = MigrationState_new(InitialAddress, 0)
    /\ totals = [a \in Addrs |-> [sent |-> 0, received |-> 0,
                                  ever_validated |-> a = InitialAddress]]
    /\ migCalls = 0
    /\ lastAttempt = NoAttempt
    /\ lastInto = [sn \in Subnets |-> NoInstant]

ConnInit == conn = ConnectionState_new(InitialAddress, 0)

(***************************************************************************)
(* Timers: the acknowledgment tracker of the sync layer, the retransmit    *)
(* controller and the frame pacer of the transport layer.  Instants and    *)
(* Durations are whole microseconds on one monotonic clock; the f64        *)
(* arithmetic of the RTT estimate is truncated to that resolution.         *)
(***************************************************************************)
MaxVersion == 2       \* versions 1..MaxVersion are registered and acknowledged
MaxTicks == 1         \* times the timers' clock advances per behaviour
MaxRetransmits == 2   \* max_retransmits of a tracker built by with_rto
MaxAckCalls == 3      \* register_sent and process_ack calls per behaviour

DEFAULT_INITIAL_RTO == 1000000    \* Duration::from_millis(1000)
DEFAULT_MIN_RTO == 100000         \* Duration::from_millis(100)
DEFAULT_MAX_RTO == 60000000       \* Duration::from_secs(60)
DEFAULT_BACKOFF_MULTIPLIER == 2
DEFAULT_MAX_RETRANSMITS == 10

Max(a, b) == IF a > b THEN a ELSE b
Abs(a) == IF a < 0 THEN 0 - a ELSE a

\* Option<Duration>::None
NoDuration == NoInstant

PendingAck_new(version, rto, t) ==
    [version |-> version, sent_at |-> t, retransmit_count |-> 0, rto |-> rto]

PendingAck_needs_retransmit(p, t) == t - p.sent_at >= p.rto

PendingAck_retransmit(p, backoff_multiplier, max_rto, t) ==
    [p EXCEPT !.sent_at = t,
              !.retransmit_count = @ + 1,
              !.rto = Min(p.rto * backoff_multiplier, max_rto)]

AckTracker_with_rto(initial_rto, min_rto, max_rto, backoff_multiplier, max_retransmits) ==
    [pending |-> <<>>, highest_acked |-> 0,
     initial_rto |-> initial_rto, min_rto |-> min_rto, max_rto |-> max_rto,
     backoff_multiplier |-> backoff_multiplier, max_retransmits |-> max_retransmits,
     srtt |-> NoDuration, rttvar |-> NoDuration]

AckTracker_new ==
    AckTracker_with_rto(DEFAULT_INITIAL_RTO, DEFAULT_MIN_RTO, DEFAULT_MAX_RTO,
                        DEFAULT_BACKOFF_MULTIPLIER, DEFAULT_MAX_RETRANSMITS)

\* RFC 6298: the first sample seeds both estimates, later ones are blended in
update_rtt(t, rtt) ==
    IF t.srtt = NoDuration /\ t.rttvar = NoDuration
    THEN [t EXCEPT !.srtt = rtt, !.rttvar = rtt \div 2]
    ELSE IF t.srtt # NoDuration /\ t.rttvar # NoDuration
    THEN [t EXCEPT !.rttvar = (3 * t.rttvar + Abs(t.srtt - rtt)) \div 4,
                   !.srtt = (7 * t.srtt + rtt) \div 8]
    ELSE t

current_rto(t) ==
    IF t.srtt # NoDuration /\ t.rttvar # NoDuration
    THEN LET rto == t.srtt + Max(1000, t.rttvar * 4)
         IN  Max(t.min_rto, Min(rto, t.max_rto))
    ELSE t.initial_rto

register_sent(t, version, tm) ==
    IF \E i \in DOMAIN t.pending : t.pending[i].version = version
    THEN t
    ELSE [t EXCEPT !.pending = Append(@, PendingAck_new(version, current_rto(t), tm))]

\* process_ack taking its sample from the first acknowledged entry, retransmitted or not
process_ack_SamplingRetransmitted(t, acked_version, tm) ==
    IF acked_version <= t.highest_acked
    THEN [t |-> t, some |-> FALSE, rtt |-> NoDuration]
    ELSE LET sampled == {i \in DOMAIN t.pending : t.pending[i].version <= acked_version}
             some == sampled # {}
             first == CHOOSE i \in sampled : \A j \in sampled : i <= j
             rtt == IF some THEN tm - t.pending[first].sent_at ELSE NoDuration
             kept == [t EXCEPT !.highest_acked = acked_version,
                               !.pending = SelectSeq(@, LAMBDA p : p.version > acked_version)]
         IN  [t |-> IF some THEN update_rtt(kept, rtt) ELSE kept,
              some |-> some, rtt |-> rtt]

\* The call's outcome: the tracker afterwards and the returned Option<Duration>.
\* retain() visits the entries in order; the sample is the age of the first
\* acknowledged entry that was never retransmitted.
process_ack(t, acked_version, tm) ==
    IF acked_version <= t.highest_acked
    THEN [t |-> t, some |-> FALSE, rtt |-> NoDuration]
    ELSE LET sampled == {i \in DOMAIN t.pending :
                            /\ t.pending[i].version <= acked_version
                            /\ t.pending[i].retransmit_count = 0}
             some == sampled # {}
             first == CHOOSE i \in sampled : \A j \in sampled : i <= j
             rtt == IF some THEN tm - t.pending[first].sent_at ELSE NoDuration
             kept == [t EXCEPT !.highest_acked = acked_version,
                               !.pending = SelectSeq(@, LAMBDA p : p.version > acked_version)]
         IN  [t |-> IF some THEN update_rtt(kept, rtt) ELSE kept,
              some |-> some, rtt |-> rtt]

\* needs_retransmit without the max_retransmits filter
needs_retransmit_Uncapped(t, tm) ==
    {t.pending[i].version : i \in {j \in DOMAIN t.pending :
        PendingAck_needs_retransmit(t.pending[j], tm)}}

\* the versions the iterator yields
needs_retransmit(t, tm) ==
    {t.pending[i].version : i \in {j \in DOMAIN t.pending :
        /\ PendingAck_needs_retransmit(t.pending[j], tm)
        /\ t.pending[j].retransmit_count < t.max_retransmits}}

failed_versions(t) ==
    {t.pending[i].version : i \in {j \in DOMAIN t.pending :
        t.pending[j].retransmit_count >= t.max_retransmits}}

mark_retransmitted(t, version, tm) ==
    [t EXCEPT !.pending = [i \in DOMAIN t.pending |->
        IF t.pending[i].version = version
        THEN PendingAck_retransmit(t.pending[i], t.backoff_multiplier, t.max_rto, tm)
        ELSE t.pending[i]]]

\* no process_ack call was made by the latest step
NoAck == [called |-> FALSE]

(***************************************************************************)
(* RetransmitController and FramePacer (transport layer).                  *)
(***************************************************************************)
MAX_RETRANSMITS == 10
RETRANSMIT_BACKOFF == 2
INITIAL_RTO == 1000000                \* Duration::from_millis(1000)
MAX_RTO == 60000000                   \* Duration::from_millis(60000)
MIN_FRAME_INTERVAL_FLOOR == 20000     \* Duration::from_millis(20)
COLLECTION_INTERVAL == 8000           \* Duration::from_millis(8)
DELAYED_ACK_TIMEOUT == 100000         \* Duration::from_millis(100)
MAX_FRAME_RATE_HZ == 50
KEEPALIVE_INTERVAL == 25000000        \* Duration::from_secs(25)
DEAD_INTERVAL == 60000000             \* Duration::from_secs(60)

RetransmitController_new(initial_rto) ==
    [retransmit_count |-> 0, last_retransmit |-> NoInstant,
     current_timeout |-> initial_rto, base_rto |-> initial_rto]

set_rto(c, rto) ==
    IF c.retransmit_count = 0
    THEN [c EXCEPT !.base_rto = rto, !.current_timeout = rto]
    ELSE [c EXCEPT !.base_rto = rto]

\* should_retransmit without the MAX_RETRANSMITS test
should_retransmit_Unlimited(c, unacked_data, tm) ==
    IF ~unacked_data THEN FALSE
    ELSE IF c.last_retransmit # NoInstant
         THEN tm - c.last_retransmit >= c.current_timeout
         ELSE TRUE

should_retransmit(c, unacked_data, tm) ==
    IF ~unacked_data THEN FALSE
    ELSE IF c.retransmit_count >= MAX_RETRANSMITS THEN FALSE
    ELSE IF c.last_retransmit # NoInstant
         THEN tm - c.last_retransmit >= c.current_timeout
         ELSE TRUE

on_retransmit(c, tm) ==
    [c EXCEPT !.retransmit_count = @ + 1,
              !.last_retransmit = tm,
              !.current_timeout = Min(c.current_timeout * RETRANSMIT_BACKOFF, MAX_RTO)]

RetransmitController_on_ack(c) ==
    [c EXCEPT !.retransmit_count = 0,
              !.last_retransmit = NoInstant,
              !.current_timeout = c.base_rto]

RetransmitController_is_failed(c) == c.retransmit_count >= MAX_RETRANSMITS

\* srtt_ms is held in whole milliseconds
FramePacer_new ==
    [last_frame_sent |-> NoInstant, state_change_time |-> NoInstant,
     ack_pending_since |-> NoInstant, data_pending |-> FALSE, srtt_ms |-> 0]

set_srtt(p, srtt) == [p EXCEPT !.srtt_ms = srtt \div 1000]

on_state_change(p, tm) ==
    [p EXCEPT !.state_change_time = IF @ = NoInstant THEN tm ELSE @,
              !.data_pending = TRUE]

on_ack_needed(p, tm) ==
    [p EXCEPT !.ack_pending_since = IF @ = NoInstant THEN tm ELSE @]

on_frame_sent(p, tm) ==
    [p EXCEPT !.last_frame_sent = tm,
              !.state_change_time = NoInstant,
              !.ack_pending_since = NoInstant,
              !.data_pending = FALSE]

clear_pending(p) ==
    [p EXCEPT !.data_pending = FALSE, !.state_change_time = NoInstant]

\* min_frame_interval without the SRTT term
min_frame_interval_FloorOnly(p) ==
    Max(MIN_FRAME_INTERVAL_FLOOR, 1000000 \div MAX_FRAME_RATE_HZ)

\* the interval as a Duration, in microseconds
min_frame_interval(p) ==
    LET srtt_half == (p.srtt_ms * 1000) \div 2
        interval == Max(srtt_half, MIN_FRAME_INTERVAL_FLOOR)
        max_interval == 1000000 \div MAX_FRAME_RATE_HZ
    IN  Max(interval, max_interval)

Idle == [action |-> "Idle", until |-> NoInstant]
SendNow == [action |-> "SendNow", until |-> NoInstant]
WaitUntil(t) == [action |-> "WaitUntil", until |-> t]

\* poll without the delayed-ack test
poll_NoDelayedAck(p, tm) ==
    IF ~(p.data_pending \/ p.ack_pending_since # NoInstant) THEN Idle
    ELSE IF /\ p.last_frame_sent # NoInstant
            /\ tm < p.last_frame_sent + min_frame_interval(p)
    THEN WaitUntil(p.last_frame_sent + min_frame_interval(p))
    ELSE IF /\ p.state_change_time # NoInstant
            /\ tm < p.state_change_time + COLLECTION_INTERVAL
            /\ p.ack_pending_since = NoInstant
    THEN WaitUntil(p.state_change_time + COLLECTION_INTERVAL)
    ELSE SendNow

poll(p, tm) ==
    IF ~(p.data_pending \/ p.ack_pending_since # NoInstant) THEN Idle
    ELSE IF /\ p.last_frame_sent # NoInstant
            /\ tm < p.last_frame_sent + min_frame_interval(p)
    THEN WaitUntil(p.last_frame_sent + min_frame_interval(p))
    ELSE IF /\ p.state_change_time # NoInstant
            /\ tm < p.state_change_time + COLLECTION_INTERVAL
            /\ p.ack_pending_since = NoInstant
    THEN WaitUntil(p.state_change_time + COLLECTION_INTERVAL)
    ELSE IF /\ ~p.data_pending
            /\ p.ack_pending_since # NoInstant
            /\ tm < p.ack_pending_since + DELAYED_ACK_TIMEOUT
    THEN WaitUntil(p.ack_pending_since + DELAYED_ACK_TIMEOUT)
    ELSE SendNow

\* Instant::duration_since: zero when the earlier instant is the later one
duration_since(tm, earlier) == Max(tm - earlier, 0)

\* needs_keepalive without the test of the last receive
needs_keepalive_IgnoringReceive(p, last_received, tm) ==
    IF p.last_frame_sent # NoInstant
    THEN duration_since(tm, p.last_frame_sent) >= KEEPALIVE_INTERVAL
    ELSE FALSE

needs_keepalive(p, last_received, tm) ==
    IF p.last_frame_sent # NoInstant
    THEN /\ duration_since(tm, p.last_frame_sent) >= KEEPALIVE_INTERVAL
         /\ duration_since(tm, last_received) < DEAD_INTERVAL
    ELSE FALSE

(***************************************************************************)
(* SyncSender (sync/sender.rs).  An Option<SyncMessage> is a sequence of   *)
(* at most one message.                                                    *)
(***************************************************************************)
DEFAULT_COLLECTION_INTERVAL == 8000
DEFAULT_DELAYED_ACK_TIMEOUT == 100000

SyncSender_new ==
    [min_send_interval |-> 20000,
     collection_interval |-> DEFAULT_COLLECTION_INTERVAL,
     delayed_ack_timeout |-> DEFAULT_DELAYED_ACK_TIMEOUT,
     last_send_time |-> NoInstant, pending_since |-> NoInstant,
     ack_pending_since |-> NoInstant, pending_message |-> <<>>]

queue_message(s, msg, tm) ==
    LET timed == IF is_ack_only(msg)
                 THEN [s EXCEPT !.ack_pending_since = IF @ = NoInstant THEN tm ELSE @]
                 ELSE [s EXCEPT !.pending_since = IF @ = NoInstant THEN tm ELSE @,
                                !.ack_pending_since = NoInstant]
    IN [timed EXCEPT !.pending_message = <<msg>>]

should_send_at(s, tm) ==
    IF s.pending_message = <<>> THEN FALSE
    ELSE IF /\ s.last_send_time # NoInstant
            /\ duration_since(tm, s.last_send_time) < s.min_send_interval
    THEN FALSE
    ELSE IF is_ack_only(s.pending_message[1])
    THEN /\ s.ack_pending_since # NoInstant
         /\ duration_since(tm, s.ack_pending_since) >= s.delayed_ack_timeout
    ELSE \/ s.pending_since = NoInstant
         \/ duration_since(tm, s.pending_since) >= s.collection_interval

\* [s, msg]: the sender after the call, and the message returned, if any
take_message_at(s, tm) ==
    IF s.pending_message # <<>>
    THEN [s |-> [s EXCEPT !.pending_message = <<>>, !.last_send_time = tm,
                          !.pending_since = NoInstant,
                          !.ack_pending_since = NoInstant],
          msg |-> s.pending_message]
    ELSE [s |-> s, msg |-> <<>>]

take_if_ready_at(s, tm) ==
    IF should_send_at(s, tm) THEN take_message_at(s, tm) ELSE [s |-> s, msg |-> <<>>]

cancel_pending(s) ==
    [s EXCEPT !.pending_message = <<>>, !.pending_since = NoInstant,
              !.ack_pending_since = NoInstant]

NoTake == [queued |-> 0, taken |-> <<>>, owed |-> 0]
SenderInit ==
    /\ sender = SyncSender_new
    /\ senderHist = NoTake

is_connection_dead(p, last_received, tm) ==
    duration_since(tm, last_received) >= DEAD_INTERVAL

\* ConnectionState::is_failed and on_ack; retransmit is the connection's
\* RetransmitController and p its FramePacer
ConnectionState_is_failed(c, p, retransmit, tm) ==
    \/ c.phase = "Failed"
    \/ is_connection_dead(p, c.last_received, tm)
    \/ RetransmitController_is_failed(retransmit)

ConnectionState_on_ack(c, retransmit, acked_version) ==
    IF acked_version > c.acked_state_version
    THEN [c |-> [c EXCEPT !.acked_state_version = acked_version],
          retransmit |-> RetransmitController_on_ack(retransmit), reset |-> TRUE]
    ELSE [c |-> c, retransmit |-> retransmit, reset |-> FALSE]

\* the timers before the tracker is built
TimerRest ==
    /\ clock = 0
    /\ ticks = 0
    /\ lastAck = NoAck
    /\ ackCalls = 0
    /\ rc = RetransmitController_new(INITIAL_RTO)
    /\ sinceAck = 0
    /\ pacer = FramePacer_new

TimerInit == TimerRest /\ ack = AckTracker_new

InitComponents ==
    /\ ReplayInit /\ NonceInit /\ CryptoInit /\ SyncInit /\ MigInit /\ TimerInit /\ now = 0
    /\ SenderInit
Init == InitComponents /\ ConnInit /\ rx = "Initiator"
\* the crypto specification exercises the inbound pipeline of either role
InitCrypto == InitComponents /\ ConnInit /\ rx \in Roles
\* a connection starts established (new) or handshaking
InitConnection ==
    /\ InitComponents
    /\ conn \in {ConnectionState_new(InitialAddress, 0), handshaking(InitialAddress, 0)}
    /\ rx = "Initiator"

(***************************************************************************)
(* The two anti-replay windows, driven by arbitrary counters.              *)
(***************************************************************************)
CheckAndUpdate(n) ==
    /\ rwCalls < MaxCalls
    /\ LET res == check_and_update(rw, n)
       IN /\ rw' = res.w
          /\ rwAccepts' = IF res.ok THEN [rwAccepts EXCEPT ![n] = Min(@ + 1, 2)]
                          ELSE rwAccepts
    /\ rwCalls' = rwCalls + 1
    /\ UNCHANGED <<senderVars, timerVars, nonceVars, cryptoVars, syncVars, migVars, now>>

ResetWindow ==
    /\ rw.initialized
    /\ rw' = ReplayWindow_reset(rw)
    /\ rwAccepts' = [n \in NonceInputs |-> 0]
    /\ UNCHANGED <<senderVars, timerVars, rwCalls, nonceVars, cryptoVars, syncVars, migVars, now>>

NextReplay == (\E n \in NonceInputs : CheckAndUpdate(n)) \/ ResetWindow
SpecReplay == Init /\ [][NextReplay]_vars

CheckAndMark(n) ==
    /\ nwCalls < MaxCalls
    /\ LET res == check_and_mark(nw, n)
       IN /\ nw' = res.w
          /\ nwAccepts' = IF res.ok THEN [nwAccepts EXCEPT ![n] = Min(@ + 1, 2)]
                          ELSE nwAccepts
    /\ nwCalls' = nwCalls + 1
    /\ UNCHANGED <<senderVars, timerVars, replayVars, cryptoVars, syncVars, migVars, now>>

NextNonce == \E n \in NonceInputs : CheckAndMark(n)
SpecNonce == Init /\ [][NextNonce]_vars

(***************************************************************************)
(* Two crypto sessions and a network that keeps every frame, so a frame    *)
(* can arrive late and more than once.  The peer of rx encrypts, rx        *)
(* decrypts, both rekey.  Each endpoint reads its own monotonic clock; now *)
(* is the clock of rx, and the peer's clock, which no step of rx's inbound *)
(* pipeline reads, stays at 0.  Every reading of rx's clock is compared    *)
(* with the instant of a rekey, so the clock starts at the first rekey of  *)
(* rx.                                                                     *)
(***************************************************************************)
Tick ==
    /\ now < MaxTime
    /\ sess[rx].old_keys.retained_at # NoInstant
    /\ now' = now + 1
    /\ lastDecrypt' = NoDecrypt
    /\ lastCall' = NoCall
    /\ UNCHANGED <<senderVars, timerVars, replayVars, nonceVars, rx, sess, wire, delivered, issued, syncVars,
                   migVars>>

\* the record of an encrypt_frame or rekey call: its result and the epoch, the
\* send and receive counters and the number of frames issued before it
Call(op, role, ok, counter) ==
    [op |-> op, role |-> role, ok |-> ok, counter |-> counter,
     epoch |-> sess[role].rekey_state.epoch,
     send_count |-> sess[role].rekey_state.send_count,
     recv_count |-> sess[role].rekey_state.recv_count,
     issued |-> Len(issued)]

EncryptFrame(role) ==
    /\ role = Peer(rx)
    /\ Cardinality(wire) < MaxSend
    /\ LET res == encrypt_frame(sess[role], FRAME_TYPE_DATA, 0, 0)
       IN /\ sess' = [sess EXCEPT ![role] = res.s]
          /\ wire' = IF res.ok
                     THEN wire \cup {[counter |-> res.counter, ct |-> res.ciphertext]}
                     ELSE wire
          /\ issued' = IF res.ok
                       THEN Append(issued, [epoch |-> res.ciphertext.nonce.epoch,
                                            counter |-> res.counter])
                       ELSE issued
          /\ lastCall' = Call("encrypt_frame", role, res.ok, res.counter)
    /\ lastDecrypt' = NoDecrypt
    /\ UNCHANGED <<senderVars, timerVars, replayVars, nonceVars, rx, delivered, syncVars, migVars, now>>

DecryptFrame(role, f, nonce_counter) ==
    /\ role = rx
    /\ f \in wire
    /\ LET res == decrypt_frame(sess[role], FRAME_TYPE_DATA, 0, nonce_counter, f.ct, now)
           good == res.result \in {"current", "old"}
       IN /\ sess' = [sess EXCEPT ![role] = res.s]
          /\ delivered' =
               IF ~good THEN delivered
               ELSE IF f.ct \in delivered[role].once
               THEN [delivered EXCEPT ![role].twice = @ \cup {f.ct}]
               ELSE [delivered EXCEPT ![role].once = @ \cup {f.ct}]
          /\ lastDecrypt' = [role |-> role, ct |-> f.ct, counter |-> nonce_counter,
                             result |-> res.result,
                             epoch |-> sess[role].rekey_state.epoch,
                             fresh |-> f.ct \notin delivered[role].once,
                             retained_at |-> sess[role].old_keys.retained_at,
                             at |-> now]
    /\ lastCall' = NoCall
    /\ UNCHANGED <<senderVars, timerVars, replayVars, nonceVars, rx, wire, issued, syncVars, migVars, now>>

\* a role rekeys MaxRekeys times from the first epoch, and as often as it
\* likes in the last two epochs
Rekey(role) ==
    /\ \/ sess[role].rekey_state.epoch < MaxRekeys
       \/ sess[role].rekey_state.epoch >= MAX_EPOCH - 1
    /\ LET res == rekey(sess[role], IF role = rx THEN now ELSE 0)
       IN /\ sess' = [sess EXCEPT ![role] = res.s]
          /\ lastCall' = Call("rekey", role, res.ok, 0)
    /\ lastDecrypt' = NoDecrypt
    /\ UNCHANGED <<senderVars, timerVars, replayVars, nonceVars, rx, wire, delivered, issued, syncVars, migVars,
                   now>>

NextCrypto ==
    \/ \E role \in Roles : EncryptFrame(role)
    \/ \E role \in Roles, f \in wire : DecryptFrame(role, f, f.counter)
    \/ \E role \in Roles : Rekey(role)
    \/ Tick
SpecCrypto == InitCrypto /\ [][NextCrypto]_vars

(***************************************************************************)
(* The same sessions late in their life: both roles are one epoch before   *)
(* MAX_EPOCH, with the keys of that epoch, and the sending peer has        *)
(* MaxSend - 1 counters left before REJECT_AFTER_MESSAGES.                 *)
(***************************************************************************)
LateSession(role, epoch, send_count) ==
    LET keys == derive_rekey_keys(epoch)
        s == IF role = "Initiator"
             THEN CryptoSession_new(role, keys.initiator, keys.responder, 0)
             ELSE CryptoSession_new(role, keys.responder, keys.initiator, 0)
    IN [s EXCEPT !.rekey_state.epoch = epoch, !.rekey_state.send_count = send_count]

InitCryptoLate ==
    /\ ReplayInit /\ NonceInit /\ SyncInit /\ MigInit /\ ConnInit /\ TimerInit /\ now = 0
    /\ SenderInit
    /\ rx \in Roles
    /\ sess = [r \in Roles |->
                 LateSession(r, MAX_EPOCH - 1,
                             IF r = Peer(rx) THEN REJECT_AFTER_MESSAGES - (MaxSend - 1)
                             ELSE 0)]
    /\ wire = {}
    /\ delivered = [r \in Roles |-> [once |-> {}, twice |-> {}]]
    /\ lastDecrypt = NoDecrypt
    /\ issued = <<>>
    /\ lastCall = NoCall
SpecCryptoLate == InitCryptoLate /\ [][NextCrypto]_vars


(***************************************************************************)
(* Claims about the anti-replay windows and the crypto session.            *)
(***************************************************************************)

\* C1: between two resets, ReplayWindow::check_and_update returns Ok at most
\* once for any counter value, however the window was advanced in between.
C1_NoCounterAcceptedTwice == \A n \in NonceInputs : rwAccepts[n] <= 1

\* C2: decrypt_frame returns plaintext at most once for a given frame (same
\* epoch and counter), frames decrypted with the retained old keys included.
C2_FrameDecryptedAtMostOnce == \A r \in Roles : delivered[r].twice = {}

\* C3: NonceWindow::check_and_mark returns true at most once for any nonce
\* value, also after the window was advanced by a larger nonce.
C3_NoNonceAcceptedTwice == \A n \in NonceInputs : nwAccepts[n] <= 1

\* The latest step called decrypt_frame on a frame that the peer encrypted
\* under the epoch before the receiver's current one, with its own header,
\* not delivered before, less than 5 s after the rekey that retained the keys.
LateOldEpochFrame ==
    /\ lastDecrypt.result # "none"
    /\ lastDecrypt.epoch >= 1
    /\ lastDecrypt.ct.nonce.epoch = lastDecrypt.epoch - 1
    /\ lastDecrypt.ct.nonce.direction = recv_direction(lastDecrypt.role)
    /\ lastDecrypt.counter = lastDecrypt.ct.nonce.counter
    /\ lastDecrypt.fresh
    /\ lastDecrypt.retained_at # NoInstant
    /\ lastDecrypt.at - lastDecrypt.retained_at < 5

\* C7: after a rekey from epoch E to E+1, a frame the peer encrypted under
\* epoch E, not delivered before and arriving within the 5 s retention
\* window, is decrypted by decrypt_frame, in either role.
C7_OldEpochFrameDecrypted ==
    LateOldEpochFrame => lastDecrypt.result \in {"current", "old"}

\* C8: decrypt_frame returns plaintext decrypted with the retained old keys
\* only while less than 5 s have passed since the rekey that retained them.
C8_OldKeysOnlyInsideRetention ==
    lastDecrypt.result = "old" =>
        /\ lastDecrypt.retained_at # NoInstant
        /\ lastDecrypt.at - lastDecrypt.retained_at < 5
\* a frame of the old epoch is decrypted with the old keys at 4 s
C8_UsedInsideRetention ==
    /\ lastDecrypt.result = "old"
    /\ lastDecrypt.at - lastDecrypt.retained_at = 4
\* a frame of the old epoch is refused once the retention window is over
C8_RefusedAfterRetention ==
    /\ lastDecrypt.result = "DecryptionFailed"
    /\ lastDecrypt.role = "Initiator"
    /\ lastDecrypt.epoch = lastDecrypt.ct.nonce.epoch + 1
    /\ lastDecrypt.counter = lastDecrypt.ct.nonce.counter
    /\ lastDecrypt.retained_at # NoInstant
    /\ lastDecrypt.at - lastDecrypt.retained_at >= 5


(***************************************************************************)
(* Two sync engines and a channel that may lose, duplicate and reorder.    *)
(* net[e] holds the messages on their way to e; a delivery may leave the   *)
(* message in the channel, so that it arrives again.                       *)
(***************************************************************************)
RecordState(h, en) ==
    [h EXCEPT ![en.tracker.current_num] = @ \cup {en.state}]

UpdateState(e, message) ==
    /\ eng["A"].tracker.current_num + eng["B"].tracker.current_num < MaxUpdates
    /\ LET en == update_state(eng[e], set_message(eng[e].state, message))
       IN /\ eng' = [eng EXCEPT ![e] = en]
          /\ hist' = [hist EXCEPT ![e] = RecordState(@, en)]
    /\ UNCHANGED <<senderVars, timerVars, replayVars, nonceVars, cryptoVars, net, lost, ackedToPeer, migVars, now>>

\* the message carries acked_state_num to the peer
Acknowledged(e, msg) ==
    [ackedToPeer EXCEPT ![e] = IF msg.acked_state_num > @ THEN msg.acked_state_num ELSE @]

GenerateMessage(e) ==
    /\ Cardinality(net[Other(e)]) < MaxInFlight
    /\ LET res == generate_message(eng[e])
       IN /\ res.some
          /\ res.msg \notin net[Other(e)]
          /\ eng' = [eng EXCEPT ![e] = res.en]
          /\ net' = [net EXCEPT ![Other(e)] = @ \cup {res.msg}]
          /\ ackedToPeer' = Acknowledged(e, res.msg)
    /\ UNCHANGED <<senderVars, timerVars, replayVars, nonceVars, cryptoVars, hist, lost, migVars, now>>

GenerateAck(e) ==
    /\ Cardinality(net[Other(e)]) < MaxInFlight
    /\ generate_ack(eng[e]) \notin net[Other(e)]
    /\ net' = [net EXCEPT ![Other(e)] = @ \cup {generate_ack(eng[e])}]
    /\ ackedToPeer' = Acknowledged(e, generate_ack(eng[e]))
    /\ UNCHANGED <<senderVars, timerVars, replayVars, nonceVars, cryptoVars, eng, hist, lost, migVars, now>>

Deliver(e, m, keep) ==
    /\ m \in net[e]
    /\ LET res == process_message(eng[e], m)
       IN /\ eng' = [eng EXCEPT ![e] = res.en]
          /\ hist' = [hist EXCEPT ![e] = RecordState(@, res.en)]
    /\ net' = IF keep THEN net ELSE [net EXCEPT ![e] = @ \ {m}]
    /\ UNCHANGED <<senderVars, timerVars, replayVars, nonceVars, cryptoVars, lost, ackedToPeer, migVars, now>>

Lose(e, m) ==
    /\ lost < MaxLost
    /\ m \in net[e]
    /\ net' = [net EXCEPT ![e] = @ \ {m}]
    /\ lost' = lost + 1
    /\ UNCHANGED <<senderVars, timerVars, replayVars, nonceVars, cryptoVars, eng, hist, ackedToPeer, migVars, now>>

NextSync ==
    \/ \E e \in Endpoints, message \in Messages : UpdateState(e, message)
    \/ \E e \in Endpoints : GenerateMessage(e)
    \/ \E e \in Endpoints : GenerateAck(e)
    \/ \E e \in Endpoints : \E m \in net[e], keep \in BOOLEAN : Deliver(e, m, keep)
    \/ \E e \in Endpoints : \E m \in net[e] : Lose(e, m)
SpecSync == Init /\ [][NextSync]_vars

\* Messages keep being generated and delivered; losses are finite.
SpecSyncFair ==
    /\ SpecSync
    /\ \A e \in Endpoints :
         /\ WF_vars(GenerateMessage(e))
         /\ WF_vars(\E m \in net[e] : Deliver(e, m, FALSE))


(***************************************************************************)
(* Claims about the sync engine.                                           *)
(***************************************************************************)
\* C4: two engines initialised with the same state eventually hold identical
\* application state for good once local updates have stopped and messages
\* keep being generated and delivered.  Stated for the behaviours the claim
\* covers in which only A makes local updates (so that the contract's
\* newest-sequence-wins apply_diff can converge) and the channel loses
\* nothing.
C4_EventuallyIdenticalState ==
    <>[](\/ eng["B"].tracker.current_num > 0
         \/ lost > 0
         \/ eng["A"].state = eng["B"].state)

\* C5: the acked snapshot of every engine is a local state the engine held
\* at version last_acked.
C5_AckedSnapshotIsStateAtLastAcked ==
    \A e \in Endpoints : eng[e].acked_snapshot \in hist[e][eng[e].tracker.last_acked]

\* C6: in every tracker, current_num >= last_sent_num >= last_acked.
C6_TrackerVersionsOrdered ==
    \A e \in Endpoints :
        /\ eng[e].tracker.current_num >= eng[e].tracker.last_sent_num
        /\ eng[e].tracker.last_sent_num >= eng[e].tracker.last_acked


(***************************************************************************)
(* The migration tracker driven by its caller: datagrams arrive from and   *)
(* are sent to addresses, authenticated frames validate an address, old    *)
(* entries are cleaned up.  A datagram is sent only when can_send allows   *)
(* it.                                                                     *)
(***************************************************************************)
Bytes == 1 .. MaxBytes

\* the record of an attempt to migrate to addr, taken before the call: frame
\* tells that it came through on_authenticated_frame, recent
\* that addr is in another subnet than current_address and that this
\* subnet was migrated into less than MIN_MIGRATION_INTERVAL ago
Attempt(addr, ok, frame) ==
    [made |-> TRUE, frame |-> frame, addr |-> addr, ok |-> ok,
     recent |-> /\ subnet_key(addr) # subnet_key(mig.current_address)
                /\ lastInto[subnet_key(addr)] # NoInstant
                /\ now - lastInto[subnet_key(addr)] < MIN_MIGRATION_INTERVAL,
     current_address |-> mig.current_address,
     remote_endpoint |-> conn.remote_endpoint,
     validated |-> is_validated(mig, addr)]

\* a successful migration from another subnet is a migration into addr's subnet
MigratedInto(addr, ok) ==
    IF ok /\ subnet_key(addr) # subnet_key(mig.current_address)
    THEN [lastInto EXCEPT ![subnet_key(addr)] = now]
    ELSE lastInto

OnReceive(from, bytes) ==
    /\ migCalls < MaxMigCalls
    /\ mig' = on_receive(mig, from, bytes, now)
    /\ totals' = [totals EXCEPT ![from].received = @ + bytes]
    /\ migCalls' = migCalls + 1
    /\ lastAttempt' = NoAttempt
    /\ UNCHANGED <<senderVars, timerVars, replayVars, nonceVars, cryptoVars, syncVars, now, conn, lastInto>>

Send(to, bytes) ==
    /\ migCalls < MaxMigCalls
    /\ can_send(mig, to, bytes)
    /\ mig' = on_send(mig, to, bytes)
    /\ totals' = [totals EXCEPT ![to].sent = @ + bytes]
    /\ migCalls' = migCalls + 1
    /\ lastAttempt' = NoAttempt
    /\ UNCHANGED <<senderVars, timerVars, replayVars, nonceVars, cryptoVars, syncVars, now, conn, lastInto>>

ValidateAddress(addr) ==
    /\ migCalls < MaxMigCalls
    /\ LET res == validate_address(mig, addr, now)
       IN /\ mig' = res.m
          /\ totals' = [totals EXCEPT ![addr].ever_validated = @ \/ res.ok]
          /\ lastAttempt' = Attempt(addr, res.ok, FALSE)
          /\ lastInto' = MigratedInto(addr, res.ok)
    /\ migCalls' = migCalls + 1
    /\ UNCHANGED <<senderVars, timerVars, replayVars, nonceVars, cryptoVars, syncVars, now, conn>>

OnAuthenticatedFrame(from) ==
    /\ migCalls < MaxMigCalls
    /\ LET res == on_authenticated_frame(conn, mig, from, now)
       IN /\ conn' = res.c
          /\ mig' = res.m
          /\ totals' = [totals EXCEPT ![from].ever_validated = @ \/ res.ok]
          /\ lastAttempt' = IF res.called THEN Attempt(from, res.ok, TRUE) ELSE NoAttempt
          /\ lastInto' = MigratedInto(from, res.ok)
    /\ migCalls' = migCalls + 1
    /\ UNCHANGED <<senderVars, timerVars, replayVars, nonceVars, cryptoVars, syncVars, now>>

Cleanup(max_age) ==
    /\ migCalls < MaxMigCalls
    /\ mig' = cleanup(mig, max_age, now)
    /\ migCalls' = migCalls + 1
    /\ lastAttempt' = NoAttempt
    /\ UNCHANGED <<senderVars, timerVars, replayVars, nonceVars, cryptoVars, syncVars, totals, now, conn, lastInto>>

Elapse ==
    /\ now < MaxElapsed
    /\ now' = now + 1
    /\ UNCHANGED <<senderVars, timerVars, replayVars, nonceVars, cryptoVars, syncVars, migVars>>

NextMigration ==
    \/ \E from \in Addrs, bytes \in Bytes : OnReceive(from, bytes)
    \/ \E to \in Addrs, bytes \in Bytes : Send(to, bytes)
    \/ \E addr \in Addrs : ValidateAddress(addr)
    \/ \E from \in Addrs : OnAuthenticatedFrame(from)
    \/ \E max_age \in 0 .. MaxAge : Cleanup(max_age)
    \/ Elapse
SpecMigration == Init /\ [][NextMigration]_vars

(***************************************************************************)
(* A connection driven by its caller: the phase calls in any order, the    *)
(* outbound nonce counter, the inbound nonce window and rekeys.            *)
(***************************************************************************)
connOthers == <<senderVars, timerVars, replayVars, nonceVars, cryptoVars, syncVars, now, mig, totals,
                migCalls, lastAttempt, lastInto>>

CompleteHandshake ==
    /\ conn' = complete_handshake(conn)
    /\ UNCHANGED connOthers

Close ==
    /\ conn' = close(conn)
    /\ UNCHANGED connOthers

MarkClosed ==
    /\ conn' = mark_closed(conn)
    /\ UNCHANGED connOthers

MarkFailed ==
    /\ conn' = mark_failed(conn)
    /\ UNCHANGED connOthers

NextSendNonce ==
    /\ conn.send_nonce < MaxConnNonce
    /\ conn' = next_send_nonce(conn).c
    /\ UNCHANGED connOthers

CheckRecvNonce(nonce) ==
    /\ conn' = check_recv_nonce(conn, nonce).c
    /\ UNCHANGED connOthers

OnRekey ==
    /\ conn.epoch < MaxRekeys
    /\ conn' = on_rekey(conn)
    /\ UNCHANGED connOthers

NextConnection ==
    \/ CompleteHandshake
    \/ Close
    \/ MarkClosed
    \/ MarkFailed
    \/ NextSendNonce
    \/ \E nonce \in 0 .. MaxConnNonce : CheckRecvNonce(nonce)
    \/ OnRekey
SpecConnection == InitConnection /\ [][NextConnection]_vars

(***************************************************************************)
(* Claims about the migration tracker.                                     *)
(***************************************************************************)
\* C9: every address that has never been validated has been sent at most
\* three times the bytes received from it, and while nothing has been
\* received from it can_send refuses every datagram.
C9_AntiAmplification ==
    \A a \in Addrs :
        ~totals[a].ever_validated =>
            /\ totals[a].sent <= 3 * totals[a].received
            /\ totals[a].received = 0 => \A n \in Bytes : ~can_send(mig, a, n)

\* bytes were sent to a never-validated address right up to the limit, and
\* the next datagram is refused
C9_SentUpToTheLimit ==
    \E a \in Addrs :
        /\ ~totals[a].ever_validated
        /\ totals[a].received > 0
        /\ totals[a].sent = 3 * totals[a].received
        /\ \A n \in Bytes : ~can_send(mig, a, n)

\* C10: at most one address has validated = true, namely current_address.
C10_OnlyCurrentAddressValidated ==
    \A a \in Addrs : is_validated(mig, a) => a = mig.current_address

\* C11: an attempt to migrate to an address of another subnet than
\* current_address, made less than MIN_MIGRATION_INTERVAL after a migration
\* into that subnet, is refused, and current_address, remote_endpoint and the
\* address's validated flag are as they were before it.
C11_RateLimitedAttemptChangesNothing ==
    (lastAttempt.made /\ lastAttempt.recent) =>
        /\ ~lastAttempt.ok
        /\ mig.current_address = lastAttempt.current_address
        /\ conn.remote_endpoint = lastAttempt.remote_endpoint
        /\ is_validated(mig, lastAttempt.addr) = lastAttempt.validated

\* an authenticated frame from a not yet validated address met the rate limit
C11_FrameRateLimited ==
    /\ lastAttempt.made /\ lastAttempt.frame
    /\ lastAttempt.recent /\ ~lastAttempt.ok
    /\ lastAttempt.addr # conn.remote_endpoint
    /\ conn.remote_endpoint = mig.current_address
    /\ ~lastAttempt.validated

(***************************************************************************)
(* Claims about what the sync engine sends and accepts.                    *)
(***************************************************************************)
\* C21: an engine with nothing unsent (current_num = last_sent_num) that has
\* already put the peer's latest version in a message to the peer gets no
\* message from generate_message.
C21_NothingToSendGivesNone ==
    \A e \in Endpoints :
        (/\ eng[e].tracker.current_num = eng[e].tracker.last_sent_num
         /\ eng[e].tracker.peer_state_num <= ackedToPeer[e]) =>
            ~generate_message(eng[e]).some

\* C22: an engine with nothing unsent that has received a peer version it has
\* not yet put in a message to the peer gets from generate_message the
\* ack-only message (current_num, peer_state_num, 0, empty diff).
C22_OwedAckGivesAckOnly ==
    \A e \in Endpoints :
        (/\ eng[e].tracker.current_num = eng[e].tracker.last_sent_num
         /\ eng[e].tracker.peer_state_num > ackedToPeer[e]) =>
            /\ generate_message(eng[e]).some
            /\ generate_message(eng[e]).msg =
                 SyncMessage_new(eng[e].tracker.current_num,
                                 eng[e].tracker.peer_state_num, 0, <<>>)

\* the message in flight is stale or a duplicate for the engine
StaleOrDuplicate(en, m) ==
    \/ m.sender_state_num < en.tracker.peer_state_num
    \/ m.sender_state_num = en.tracker.peer_state_num /\ m.sender_state_num > 0

C24_SnapshotOnlyWhenAckAdvances ==
    \A e \in Endpoints : \A m \in net[e] :
        m.acked_state_num <= eng[e].tracker.last_acked =>
            process_message(eng[e], m).en.acked_snapshot = eng[e].acked_snapshot

\* C25: processing a state-bearing message in flight a second time returns
\* Duplicate and leaves the engine (state, tracker, acked snapshot) as the
\* first processing left it.
C25_SecondDeliveryIsDuplicate ==
    \A e \in Endpoints : \A m \in net[e] :
        ~is_ack_only(m) =>
            LET once == process_message(eng[e], m)
                twice == process_message(once.en, m)
            IN /\ twice.result = "Duplicate"
               /\ twice.en = once.en

\* a state-bearing message that was processed and kept is in flight: the
\* engine holds its version and the state of its diff
C25_ProcessedMessageStillInFlight ==
    \E e \in Endpoints : \E m \in net[e] :
        /\ ~is_ack_only(m)
        /\ m.sender_state_num = eng[e].tracker.peer_state_num
        /\ eng[e].state # EchoState_new
        /\ eng[e].state = apply_diff(EchoState_new, decode_diff(m.diff))
        /\ eng[e].tracker.current_num = 0

(***************************************************************************)
(* Claims about the edges of the two windows.                              *)
(***************************************************************************)
\* C19: when the highest accepted counter h of a ReplayWindow is at least
\* 2048, check_and_update accepts the counter h - 2047 unless it was accepted
\* before, and refuses h - 2048 and every counter below it.
C19_ReplayWindowEdge ==
    (rw.initialized /\ rw.highest >= REPLAY_WINDOW_SIZE) =>
        LET atEdge == rw.highest - (REPLAY_WINDOW_SIZE - 1)
        IN /\ (atEdge \in NonceInputs /\ rwAccepts[atEdge] = 0) =>
                  check_and_update(rw, atEdge).ok
           /\ \A n \in NonceInputs :
                  n <= rw.highest - REPLAY_WINDOW_SIZE => ~check_and_update(rw, n).ok

\* C20: NonceWindow::check_and_mark refuses every nonce that lies 2048 or
\* more below the highest nonce accepted.
C20_NonceWindowRefusesBelowWindow ==
    \A n \in NonceInputs :
        nw.highest - n >= WINDOW_SIZE => ~check_and_mark(nw, n).ok

(***************************************************************************)
(* Claims about the counters and epochs of the crypto session.             *)
(***************************************************************************)
\* C13: of the counters encrypt_frame returned, in the order it returned
\* them, those of one epoch grow by one each time, so none is returned twice
\* in an epoch and none follows a larger one.
C13_CountersIncreaseWithinEpoch ==
    /\ \A i \in 1 .. Len(issued) - 1 :
         /\ issued[i].epoch <= issued[i + 1].epoch
         /\ issued[i].epoch = issued[i + 1].epoch =>
                issued[i + 1].counter = issued[i].counter + 1
    /\ \A i, j \in 1 .. Len(issued) :
         (i < j /\ issued[i].epoch = issued[j].epoch) =>
             issued[i].counter < issued[j].counter

\* the last counter below REJECT_AFTER_MESSAGES was returned after its
\* predecessor in the same epoch
C13_LastCounterIssued ==
    \E i \in 1 .. Len(issued) - 1 :
        /\ issued[i].epoch = issued[i + 1].epoch
        /\ issued[i + 1].counter = REJECT_AFTER_MESSAGES - 1

\* C14: an encrypt_frame call made with the send counter at
\* REJECT_AFTER_MESSAGES fails, issues no frame and leaves the counter at
\* REJECT_AFTER_MESSAGES, so that the next call in the epoch meets the same.
C14_ExhaustedCounterRefuses ==
    (lastCall.op = "encrypt_frame" /\ lastCall.send_count = REJECT_AFTER_MESSAGES) =>
        /\ ~lastCall.ok
        /\ Len(issued) = lastCall.issued
        /\ sess[lastCall.role].rekey_state.send_count = REJECT_AFTER_MESSAGES
        /\ sess[lastCall.role].rekey_state.epoch = lastCall.epoch

\* encrypt_frame was refused at the limit after it had issued frames
C14_RefusedAtTheLimit ==
    /\ lastCall.op = "encrypt_frame"
    /\ lastCall.send_count = REJECT_AFTER_MESSAGES
    /\ ~lastCall.ok
    /\ lastCall.issued > 0

\* C15: a successful rekey leaves the epoch one above what it was, a rekey at
\* MAX_EPOCH fails, and a failed rekey leaves the epoch as it was.
C15_EpochAdvancesByOne ==
    lastCall.op = "rekey" =>
        /\ lastCall.epoch = MAX_EPOCH => ~lastCall.ok
        /\ lastCall.ok =>
              /\ lastCall.epoch < MAX_EPOCH
              /\ sess[lastCall.role].rekey_state.epoch = lastCall.epoch + 1
        /\ ~lastCall.ok => sess[lastCall.role].rekey_state.epoch = lastCall.epoch

\* rekey was refused at MAX_EPOCH
C15_RefusedAtMaxEpoch ==
    /\ lastCall.op = "rekey"
    /\ lastCall.epoch = MAX_EPOCH
    /\ ~lastCall.ok

\* C16: right after a successful rekey the send counter is 0, the next
\* encrypt_frame returns counter 0, the replay window is the empty one, and
\* it accepts every counter the first time and refuses it the second time.
C16_RekeyResetsCounterAndWindow ==
    (lastCall.op = "rekey" /\ lastCall.ok) =>
        LET s == sess[lastCall.role]
            first == encrypt_frame(s, FRAME_TYPE_DATA, 0, 0)
        IN /\ s.rekey_state.send_count = 0
           /\ first.ok /\ first.counter = 0
           /\ s.replay_window = ReplayWindow_new
           /\ \A n \in NonceInputs :
                /\ ~is_replay(s.replay_window, n)
                /\ check_and_update(s.replay_window, n).ok
                /\ ~check_and_update(check_and_update(s.replay_window, n).w, n).ok

\* both roles have rekeyed, the sender after it issued frames and the
\* receiver, by the latest step, after it accepted one
C16_RekeyedAfterTraffic ==
    /\ lastCall.op = "rekey" /\ lastCall.ok
    /\ lastCall.role = rx
    /\ lastCall.recv_count > 0
    /\ sess[Peer(rx)].rekey_state.epoch > 0
    /\ \E i \in 1 .. Len(issued) : issued[i].epoch = 0

\* C18: a step that changes the replay window of a role within an epoch is a
\* decrypt_frame call of that role that succeeded under the current key.
C18_WindowChangesOnlyOnCurrentSuccess ==
    [][\A r \in Roles :
          (/\ sess'[r].replay_window # sess[r].replay_window
           /\ sess'[r].rekey_state.epoch = sess[r].rekey_state.epoch) =>
              /\ lastDecrypt'.role = r
              /\ lastDecrypt'.result = "current"]_vars

\* decrypt_frame succeeded with the retained old key on a counter that the
\* window of the new epoch has not seen, and the window still has not seen it
C18_OldKeySuccess ==
    /\ lastDecrypt.result = "old"
    /\ ~is_replay(sess[lastDecrypt.role].replay_window, lastDecrypt.counter)

(***************************************************************************)
(* Claims about the connection.                                            *)
(***************************************************************************)
\* C12: the phase changes only from Handshaking to Established, from
\* Established to Closing, from Closing to Closed, or to Failed from one of
\* Handshaking, Established, Closing; from Closed or Failed it never changes.
C12_PhaseFollowsLifecycle ==
    [][conn'.phase # conn.phase =>
          \/ conn.phase = "Handshaking" /\ conn'.phase = "Established"
          \/ conn.phase = "Established" /\ conn'.phase = "Closing"
          \/ conn.phase = "Closing" /\ conn'.phase = "Closed"
          \/ conn.phase \in {"Handshaking", "Established", "Closing"}
             /\ conn'.phase = "Failed"]_vars

\* C17: a step that advances the connection's epoch leaves send_nonce at 0
\* and the inbound nonce window empty.
C17_OnRekeyResetsNonces ==
    [][conn'.epoch # conn.epoch =>
          /\ conn'.send_nonce = 0
          /\ conn'.recv_nonce_window = NonceWindow_new]_vars

(***************************************************************************)
(* The acknowledgment tracker driven by its caller: versions are           *)
(* registered, retransmitted and acknowledged in any order while the       *)
(* clock advances by the initial or the maximum timeout.                   *)
(***************************************************************************)
otherVars == <<senderVars, replayVars, nonceVars, cryptoVars, syncVars, migVars, now>>

Versions == 1..MaxVersion

Advance(d) ==
    /\ ticks < MaxTicks
    /\ clock' = clock + d
    /\ ticks' = ticks + 1
    /\ lastAck' = NoAck
    /\ UNCHANGED <<otherVars, ack, ackCalls, rc, sinceAck, pacer>>

RegisterSent(version) ==
    /\ ackCalls < MaxAckCalls
    /\ ackCalls' = ackCalls + 1
    /\ ack' = register_sent(ack, version, clock)
    /\ lastAck' = NoAck
    /\ UNCHANGED <<otherVars, clock, ticks, rc, sinceAck, pacer>>

ProcessAck(acked_version) ==
    LET r == process_ack(ack, acked_version, clock)
    IN  /\ ackCalls < MaxAckCalls
        /\ ackCalls' = ackCalls + 1
        /\ ack' = r.t
        /\ lastAck' = [called |-> TRUE, acked_version |-> acked_version,
                       tracker |-> ack, some |-> r.some, rtt |-> r.rtt]
        /\ UNCHANGED <<otherVars, clock, ticks, rc, sinceAck, pacer>>

\* the caller stops retransmitting an entry one call after the limit
MarkRetransmitted(version) ==
    /\ \A i \in DOMAIN ack.pending :
           ack.pending[i].version = version =>
               ack.pending[i].retransmit_count <= ack.max_retransmits
    /\ ack' = mark_retransmitted(ack, version, clock)
    /\ lastAck' = NoAck
    /\ UNCHANGED <<otherVars, clock, ticks, ackCalls, rc, sinceAck, pacer>>

NextAck ==
    \/ \E d \in {DEFAULT_INITIAL_RTO, DEFAULT_MAX_RTO} : Advance(d)
    \/ \E v \in Versions : RegisterSent(v)
    \/ \E v \in Versions : ProcessAck(v)
    \/ \E v \in Versions : MarkRetransmitted(v)

\* a tracker built by with_rto: the default timeouts, a small retransmit limit
InitAck ==
    /\ ReplayInit /\ NonceInit /\ CryptoInit /\ SyncInit /\ MigInit /\ ConnInit
    /\ TimerRest /\ SenderInit /\ now = 0
    /\ rx = "Initiator"
    /\ ack = AckTracker_with_rto(DEFAULT_INITIAL_RTO, DEFAULT_MIN_RTO, DEFAULT_MAX_RTO,
                                 DEFAULT_BACKOFF_MULTIPLIER, MaxRetransmits)
SpecAck == InitAck /\ [][NextAck]_vars

\* the default tracker (AckTracker::new) following one version up to its limit
NextAckDefault ==
    \/ \E d \in {DEFAULT_INITIAL_RTO, DEFAULT_MAX_RTO} : Advance(d)
    \/ RegisterSent(1)
    \/ ProcessAck(1)
    \/ MarkRetransmitted(1)
SpecAckDefault == Init /\ [][NextAckDefault]_vars

(***************************************************************************)
(* Claims about the acknowledgment tracker.                                *)
(***************************************************************************)
\* C26: after a process_ack(v) call no pending entry has a version <= v, and
\* every entry that was pending with a version > v is still pending, unchanged.
C26_AckClearsUpToVersion ==
    lastAck.called =>
        /\ \A i \in DOMAIN ack.pending :
               ack.pending[i].version > lastAck.acked_version
        /\ \A i \in DOMAIN lastAck.tracker.pending :
               lastAck.tracker.pending[i].version > lastAck.acked_version =>
                   \E j \in DOMAIN ack.pending :
                       ack.pending[j] = lastAck.tracker.pending[i]

\* C27: an RTT sample returned by process_ack is the age of an acknowledged
\* entry that was never retransmitted, and a call that returns no sample
\* leaves srtt and rttvar as they were.
C27_SampleOnlyFromUnretransmitted ==
    lastAck.called =>
        /\ lastAck.some =>
               \E i \in DOMAIN lastAck.tracker.pending :
                   /\ lastAck.tracker.pending[i].version <= lastAck.acked_version
                   /\ lastAck.tracker.pending[i].retransmit_count = 0
                   /\ lastAck.rtt = clock - lastAck.tracker.pending[i].sent_at
        /\ ~lastAck.some =>
               /\ ack.srtt = lastAck.tracker.srtt
               /\ ack.rttvar = lastAck.tracker.rttvar

\* a call acknowledged a retransmitted entry of another age together with
\* the entry that gave the sample
C27_RetransmittedEntryAcked ==
    /\ lastAck.called
    /\ lastAck.some
    /\ \E i \in DOMAIN lastAck.tracker.pending :
           /\ lastAck.tracker.pending[i].version <= lastAck.acked_version
           /\ lastAck.tracker.pending[i].retransmit_count > 0
           /\ lastAck.rtt # clock - lastAck.tracker.pending[i].sent_at

\* C28: a pending entry that has been retransmitted max_retransmits times is
\* not among the versions needs_retransmit offers and is among failed_versions.
C28_ExhaustedEntryFailsNotOffered ==
    \A i \in DOMAIN ack.pending :
        ack.pending[i].retransmit_count >= ack.max_retransmits =>
            /\ ack.pending[i].version \notin needs_retransmit(ack, clock)
            /\ ack.pending[i].version \in failed_versions(ack)

\* an entry retransmitted max_retransmits times whose timeout has run out
C28_ExhaustedEntryTimedOut ==
    \E i \in DOMAIN ack.pending :
        /\ ack.pending[i].retransmit_count >= ack.max_retransmits
        /\ PendingAck_needs_retransmit(ack.pending[i], clock)

(***************************************************************************)
(* The retransmit controller driven by its caller.                         *)
(***************************************************************************)
SetRto(rto) ==
    /\ rc' = set_rto(rc, rto)
    /\ UNCHANGED <<otherVars, clock, ticks, ack, lastAck, ackCalls, sinceAck, pacer>>

\* the caller stops one call after the limit
OnRetransmit ==
    /\ rc.retransmit_count <= MAX_RETRANSMITS
    /\ rc' = on_retransmit(rc, clock)
    /\ sinceAck' = sinceAck + 1
    /\ UNCHANGED <<otherVars, clock, ticks, ack, lastAck, ackCalls, pacer>>

OnAck ==
    /\ rc' = RetransmitController_on_ack(rc)
    /\ sinceAck' = 0
    /\ UNCHANGED <<otherVars, clock, ticks, ack, lastAck, ackCalls, pacer>>

NextRetransmit ==
    \/ \E d \in {INITIAL_RTO, MAX_RTO} : Advance(d)
    \/ \E rto \in {INITIAL_RTO, MAX_RTO} : SetRto(rto)
    \/ OnRetransmit
    \/ OnAck
SpecRetransmit == Init /\ [][NextRetransmit]_vars

\* C29: after MAX_RETRANSMITS (10) on_retransmit calls with no on_ack in
\* between, is_failed is true and should_retransmit is false whatever its
\* argument.
C29_TenRetransmitsThenFailed ==
    sinceAck >= MAX_RETRANSMITS =>
        /\ RetransmitController_is_failed(rc)
        /\ \A unacked_data \in BOOLEAN : ~should_retransmit(rc, unacked_data, clock)

\* ten retransmits without an ack, and the current timeout has run out
C29_TenRetransmitsTimedOut ==
    /\ sinceAck >= MAX_RETRANSMITS
    /\ rc.last_retransmit # NoInstant
    /\ clock - rc.last_retransmit >= rc.current_timeout

(***************************************************************************)
(* The frame pacer driven by the connection: state changes, owed acks,     *)
(* sent frames and SRTT updates in any order while the clock advances by   *)
(* one of the pacer's intervals.  poll reads the pacer and the clock.      *)
(***************************************************************************)
\* smoothed RTTs the estimator reports: half of it below and above the floor
SrttInputs == {30000, 50000}

SetSrtt(srtt) ==
    /\ pacer' = set_srtt(pacer, srtt)
    /\ UNCHANGED <<otherVars, clock, ticks, ack, lastAck, ackCalls, rc, sinceAck>>

OnStateChange ==
    /\ pacer' = on_state_change(pacer, clock)
    /\ UNCHANGED <<otherVars, clock, ticks, ack, lastAck, ackCalls, rc, sinceAck>>

OnAckNeeded ==
    /\ pacer' = on_ack_needed(pacer, clock)
    /\ UNCHANGED <<otherVars, clock, ticks, ack, lastAck, ackCalls, rc, sinceAck>>

OnFrameSent ==
    /\ pacer' = on_frame_sent(pacer, clock)
    /\ UNCHANGED <<otherVars, clock, ticks, ack, lastAck, ackCalls, rc, sinceAck>>

ClearPending ==
    /\ pacer' = clear_pending(pacer)
    /\ UNCHANGED <<otherVars, clock, ticks, ack, lastAck, ackCalls, rc, sinceAck>>

NextPacer ==
    \/ \E d \in {COLLECTION_INTERVAL, MIN_FRAME_INTERVAL_FLOOR, DELAYED_ACK_TIMEOUT,
                  KEEPALIVE_INTERVAL, DEAD_INTERVAL} :
           Advance(d)
    \/ \E srtt \in SrttInputs : SetSrtt(srtt)
    \/ OnStateChange
    \/ OnAckNeeded
    \/ OnFrameSent
    \/ ClearPending
SpecPacer == Init /\ [][NextPacer]_vars

\* C30: when poll returns SendNow after a frame was sent, at least
\* max(SRTT/2, 20 ms) have passed since the most recent on_frame_sent.
C30_SendNowRespectsMinInterval ==
    (pacer.last_frame_sent # NoInstant /\ poll(pacer, clock) = SendNow) =>
        /\ clock - pacer.last_frame_sent >= MIN_FRAME_INTERVAL_FLOOR
        /\ 2 * (clock - pacer.last_frame_sent) >= pacer.srtt_ms * 1000

\* poll returns SendNow after a frame was sent while SRTT/2 is above the floor
C30_SendNowAfterHalfSrtt ==
    /\ pacer.last_frame_sent # NoInstant
    /\ poll(pacer, clock) = SendNow
    /\ pacer.srtt_ms * 1000 > 2 * MIN_FRAME_INTERVAL_FLOOR

\* C31: while a state change is pending, poll does not return SendNow before
\* COLLECTION_INTERVAL (8 ms) has passed since the first on_state_change after
\* the last send, whether an ack is pending or not.
C31_DataWaitsCollectionInterval ==
    (pacer.data_pending /\ pacer.state_change_time # NoInstant
        /\ poll(pacer, clock) = SendNow) =>
            clock - pacer.state_change_time >= COLLECTION_INTERVAL

\* C32: while only an ack is pending, poll returns SendNow exactly when
\* DELAYED_ACK_TIMEOUT (100 ms) has passed since the ack became pending and
\* the minimum send interval since the last frame is over.
C32_AckOnlyHeldForDelayedAckTimeout ==
    (~pacer.data_pending /\ pacer.ack_pending_since # NoInstant) =>
        (poll(pacer, clock) = SendNow <=>
            /\ clock - pacer.ack_pending_since >= DELAYED_ACK_TIMEOUT
            /\ \/ pacer.last_frame_sent = NoInstant
               \/ /\ clock - pacer.last_frame_sent >= MIN_FRAME_INTERVAL_FLOOR
                  /\ 2 * (clock - pacer.last_frame_sent) >= pacer.srtt_ms * 1000)

\* only an ack is pending after a frame was sent, its deadline has come and
\* poll returns SendNow
C32_AckSentAtDeadline ==
    /\ ~pacer.data_pending
    /\ pacer.ack_pending_since # NoInstant
    /\ pacer.last_frame_sent # NoInstant
    /\ clock - pacer.ack_pending_since = DELAYED_ACK_TIMEOUT
    /\ poll(pacer, clock) = SendNow

\* the instants a last authenticated receive can have: the connection's
\* creation or the present
ReceiveInstants == {0, clock}

\* C33: needs_keepalive is true exactly when KEEPALIVE_INTERVAL (25 s) or more
\* has passed since the last send and the last receive is less than
\* DEAD_INTERVAL (60 s) ago.
C33_KeepaliveExactlyWhenIdleAndAlive ==
    \A last_received \in ReceiveInstants :
        needs_keepalive(pacer, last_received, clock) <=>
            /\ pacer.last_frame_sent # NoInstant
            /\ clock - pacer.last_frame_sent >= KEEPALIVE_INTERVAL
            /\ clock - last_received < DEAD_INTERVAL

\* the last send is 25 s or more ago and the last receive 60 s or more
C33_IdleAndDead ==
    /\ pacer.last_frame_sent # NoInstant
    /\ clock - pacer.last_frame_sent >= KEEPALIVE_INTERVAL
    /\ \E last_received \in ReceiveInstants : clock - last_received >= DEAD_INTERVAL

(***************************************************************************)
(* Claims about what a received sync message does to the engine.           *)
(***************************************************************************)
\* C34: processing an ack-only message does not raise the peer version the
\* engine reports as received (peer_state_num), since no diff was applied.
C34_AckOnlyAcknowledgesNothing ==
    \A e \in Endpoints : \A m \in net[e] :
        is_ack_only(m) =>
            process_message(eng[e], m).en.tracker.peer_state_num
                = eng[e].tracker.peer_state_num

\* a state-bearing message whose diff lost its last byte on the way
Truncated(m) == [m EXCEPT !.diff = SubSeq(@, 1, Len(@) - 1)]

\* C35: when process_message fails with DiffDecode, the state and the tracker
\* are as before the call, and the valid message with the same
\* sender_state_num is applied (Updated) afterwards.
C35_FailedMessageChangesNothing ==
    \A e \in Endpoints : \A m \in net[e] :
        LET failed == process_message(eng[e], Truncated(m))
        IN  (~is_ack_only(m) /\ failed.result = "DiffDecode") =>
                /\ failed.en.state = eng[e].state
                /\ failed.en.tracker = eng[e].tracker
                /\ process_message(failed.en, m).result = "Updated"

(***************************************************************************)
(* Claims about the windows under any order of counters.                   *)
(***************************************************************************)
\* C36: check_and_update accepts every counter that was not accepted since
\* the window was new or reset and lies less than REPLAY_WINDOW_SIZE (2048)
\* below the highest accepted counter.
C36_NoFalseReplayRejection ==
    \A n \in NonceInputs :
        (/\ rw.initialized
         /\ rwAccepts[n] = 0
         /\ n < rw.highest
         /\ rw.highest - n < REPLAY_WINDOW_SIZE) =>
            check_and_update(rw, n).ok

(***************************************************************************)
(* Claims about frames delivered in order to a fresh NonceWindow.          *)
(***************************************************************************)
\* The receive window of a peer that has accepted, in order, the frames
\* carrying the nonces 0 .. n - 1.
RECURSIVE DeliveredInOrder(_)
DeliveredInOrder(n) ==
    IF n = 0 THEN NonceWindow_new
    ELSE check_and_mark(DeliveredInOrder(n - 1), n - 1).w

\* C37: when the frames are delivered in order, starting with nonce 0, the
\* receiver's fresh NonceWindow accepts the nonce that the sender's
\* next_send_nonce produces next, and refuses it when it arrives a second time.
C37_InOrderNoncesAcceptedOnce ==
    LET nonce == next_send_nonce(conn).nonce
        first == check_and_mark(DeliveredInOrder(nonce), nonce)
    IN /\ first.ok
       /\ ~check_and_mark(first.w, nonce).ok


(***************************************************************************)
(* Claims about a refused rekey.                                           *)
(***************************************************************************)
\* C38: a rekey that fails with EpochExhaustion leaves the session exactly
\* as it was before the call: keys, old-keys slot and its retention start,
\* epoch, counters and replay window.
C38_FailedRekeyChangesNothing ==
    \A role \in Roles :
        LET res == rekey(sess[role], IF role = rx THEN now ELSE 0)
        IN ~res.ok => res.s = sess[role]


(***************************************************************************)
(* A connection with its retransmit controller and pacer: frames and acks  *)
(* arrive from the peer, the caller retransmits, time passes.  The         *)
(* connection reads the clock of the timers.                               *)
(***************************************************************************)
FrameArrives ==
    /\ LET res == on_authenticated_frame(conn, mig, conn.remote_endpoint, clock)
       IN /\ conn' = res.c
          /\ mig' = res.m
    /\ UNCHANGED <<senderVars, timerVars, replayVars, nonceVars, cryptoVars, syncVars, now,
                   totals, migCalls, lastAttempt, lastInto>>

AckArrives(acked_version) ==
    /\ LET res == ConnectionState_on_ack(conn, rc, acked_version)
       IN /\ conn' = res.c
          /\ rc' = res.retransmit
          /\ sinceAck' = IF res.reset THEN 0 ELSE sinceAck
    /\ UNCHANGED <<senderVars, replayVars, nonceVars, cryptoVars, syncVars, now,
                   mig, totals, migCalls, lastAttempt, lastInto,
                   clock, ticks, ack, lastAck, ackCalls, pacer>>

NextFailure ==
    \/ \E d \in {KEEPALIVE_INTERVAL, DEAD_INTERVAL} : Advance(d)
    \/ FrameArrives
    \/ \E acked_version \in 0 .. MaxVersion : AckArrives(acked_version)
    \/ OnRetransmit
    \/ MarkFailed
SpecFailure == Init /\ [][NextFailure]_vars

\* C39: once is_failed has returned true it returns true at every later
\* time: no step (a frame or an ack arriving, a retransmission, time
\* passing) takes a failed connection to one that is not failed.
C39_FailedStaysFailed ==
    [][ConnectionState_is_failed(conn, pacer, rc, clock)
          => ConnectionState_is_failed(conn', pacer', rc', clock')]_vars


(***************************************************************************)
(* The sender of the sync layer: the engine queues its messages, whose     *)
(* versions never go backwards, and the transport takes them.              *)
(***************************************************************************)
SenderMessages ==
    {SyncMessage_new(v, 0, 0, <<1, 2, 3>>) : v \in Versions}
    \cup {ack_only(v, v) : v \in 0 .. MaxVersion}

QueueMessage(msg) ==
    /\ sender.pending_message # <<>> =>
          msg.sender_state_num >= sender.pending_message[1].sender_state_num
    /\ sender' = queue_message(sender, msg, clock)
    /\ senderHist' = [queued |-> IF is_ack_only(msg) THEN senderHist.queued
                                 ELSE msg.sender_state_num,
                      taken |-> <<>>, owed |-> 0]
    /\ UNCHANGED <<replayVars, nonceVars, cryptoVars, syncVars, migVars, now, timerVars>>

\* what a take leaves in the history: the message, and the state update owed
Took(msg) ==
    IF msg = <<>> THEN [senderHist EXCEPT !.taken = <<>>, !.owed = 0]
    ELSE [queued |-> 0, taken |-> msg, owed |-> senderHist.queued]

TakeIfReady ==
    /\ LET res == take_if_ready_at(sender, clock)
       IN /\ sender' = res.s
          /\ senderHist' = Took(res.msg)
    /\ UNCHANGED <<replayVars, nonceVars, cryptoVars, syncVars, migVars, now, timerVars>>

TakeMessage ==
    /\ LET res == take_message_at(sender, clock)
       IN /\ sender' = res.s
          /\ senderHist' = Took(res.msg)
    /\ UNCHANGED <<replayVars, nonceVars, cryptoVars, syncVars, migVars, now, timerVars>>

CancelPending ==
    /\ sender' = cancel_pending(sender)
    /\ senderHist' = NoTake
    /\ UNCHANGED <<replayVars, nonceVars, cryptoVars, syncVars, migVars, now, timerVars>>

NextSender ==
    \/ \E d \in {DEFAULT_COLLECTION_INTERVAL, DEFAULT_DELAYED_ACK_TIMEOUT} : Advance(d)
    \/ \E msg \in SenderMessages : QueueMessage(msg)
    \/ TakeIfReady
    \/ TakeMessage
    \/ CancelPending
SpecSender == Init /\ [][NextSender]_vars

\* C40: once a state update has been queued, the next message taken from
\* the sender carries state at least as new as that update; an ack-only
\* message queued later never takes its place.
C40_QueuedStateUpdateIsSent ==
    (senderHist.taken # <<>> /\ senderHist.owed > 0) =>
        /\ ~is_ack_only(senderHist.taken[1])
        /\ senderHist.taken[1].sender_state_num >= senderHist.owed

====
